---- MODULE Spec2Model ----
(***************************************************************************)
(* Model of the libosmium PBF input pipeline                               *)
(* (include/osmium/io/detail/pbf_input_format.hpp, io/reader.hpp) and of   *)
(* the relation collector (include/osmium/relations/collector.hpp).        *)
(*                                                                         *)
(* Spec / FairSpec : the PBF pipeline: constructor, producer thread        *)
(*                   (parse_osm_data), pool workers, consumer (read) and   *)
(*                   destructor.                                           *)
(* SpecCollector   : the two passes of the relation collector.             *)
(***************************************************************************)
EXTENDS Integers, Sequences, FiniteSets, TLC

(***************************************************************************)
(* Bounds of the model                                                     *)
(***************************************************************************)
\* number of frames that follow the header frame in a file
MaxBlobs == 3
\* number of threads of the worker pool
NumWorkers == 2
\* m_max_work_queue_size (10 in the source), scaled to the size of the files
MaxWorkQueue == 1
\* m_max_buffer_queue_size (20 in the source), scaled to the size of the files
MaxBufferQueue == 1
\* calls of Reader::close() by the caller
MaxClose == 1

(***************************************************************************)
(* Program constants                                                       *)
(***************************************************************************)
max_blob_header_size == 65536
max_uncompressed_blob_size == 33554432

Workers == 1..NumWorkers

(***************************************************************************)
(* The input: a file is a sequence of frames.  A frame says how much of it *)
(* is present before EOF (parts: 0 = the 4-byte length prefix is           *)
(* incomplete, 1 = prefix complete, 2 = BlobHeader complete, 3 = payload   *)
(* complete; stray: some bytes of the first missing part are present),     *)
(* what the BlobHeader holds (hsize, hparse, type, datasize), what the     *)
(* Blob holds (blob: the payload variant, raw_size) and the block inside   *)
(* (block: whether it parses; features: required_features of a             *)
(* HeaderBlock).                                                           *)
(***************************************************************************)
Frame(parts, stray, hsize, hparse, type, datasize, blob, raw_size, block) ==
    [parts |-> parts, stray |-> stray, hsize |-> hsize, hparse |-> hparse,
     type |-> type, datasize |-> datasize, blob |-> blob,
     raw_size |-> raw_size, block |-> block, features |-> <<>>]

\* what the reader sees after the last byte of the file
NoFrame == Frame(0, FALSE, 0, FALSE, "", 0, "none", 0, "ok")

HeaderGood     == Frame(3, FALSE, 14, TRUE, "OSMHeader", 30, "raw", 0, "ok")
HeaderExotic   == [HeaderGood EXCEPT !.features = <<"SomethingExotic">>]
DataGood       == Frame(3, FALSE, 12, TRUE, "OSMData", 40, "raw", 0, "ok")
DataZlib       == Frame(3, FALSE, 12, TRUE, "OSMData", 40, "zlib", 90, "ok")
DataCorrupt    == Frame(3, FALSE, 12, TRUE, "OSMData", 40, "raw", 0, "corrupt")
DataLzma       == Frame(3, FALSE, 12, TRUE, "OSMData", 40, "lzma", 90, "ok")
DataWrongType  == Frame(3, FALSE, 14, TRUE, "OSMHeader", 30, "raw", 0, "ok")
DataBigHeader  == Frame(1, TRUE, max_blob_header_size + 1, TRUE, "OSMData", 40, "raw", 0, "ok")
DataTruncated  == Frame(2, TRUE, 12, TRUE, "OSMData", 40, "raw", 0, "ok")
DataZeroSize   == Frame(3, FALSE, 12, TRUE, "OSMData", 0, "none", 0, "ok")

HeaderFrames == {HeaderGood, HeaderExotic, DataGood}
DataFrames   == {DataGood, DataZlib, DataCorrupt, DataLzma, DataWrongType,
                 DataBigHeader, DataTruncated, DataZeroSize}

\* a frame that ends before its last byte is the last frame of its file
WellFormedFile(f) ==
    \A i \in 1..Len(f) : (f[i].parts < 3) => (i = Len(f))

SeqsUpTo(S, k) == UNION {[1..m -> S] : m \in 0..k}

Files ==
    {<<>>} \cup
    {<<h>> \o d : h \in HeaderFrames, d \in {s \in SeqsUpTo(DataFrames, MaxBlobs) : WellFormedFile(s)}}

ReadTypes == {"all", "nothing"}

VARIABLES
    file,          \* the bytes of the input, as frames
    read_types,    \* m_read_which_entities
    cursor,        \* InputQueueReader: index of the next frame to read
    p_pc,          \* position of the reader thread in parse_osm_data
    p_frame,       \* the frame held by data_blob_parser
    n,             \* parse_osm_data: int n
    m_done,        \* std::atomic<bool> m_done
    m_queue,       \* queue of futures, a future is named by its blob number
    work_queue,    \* thread pool: tasks submitted and not yet started
    running,       \* thread pool: the task each worker runs (-1: idle)
    tasks,         \* per blob number: the blob and the state of its future
    c_pc,          \* position of the consumer thread
    c_fut,         \* read(): buffer_future
    delivered,     \* what the calls of read() returned, in order
    m_header,      \* InputFormat::m_header, the flags the header parser sets
    thrown         \* the exception that left the constructor or a thread

pbfVars == <<file, read_types, cursor, p_pc, p_frame, n, m_done, m_queue,
             work_queue, running, tasks, c_pc, c_fut, delivered, m_header,
             thrown>>

VARIABLES
    ndebug,             \* the build: TRUE when assert() is compiled out (NDEBUG)
    track,              \* template parameters TNodes, TWays, TRelations
    phase,              \* "idle", "pass1", "pass2", "done", or "aborted" by an assert
    k2,                 \* objects handed to pass 2 so far
    m_relations_buffer, \* the committed relations, the one at offset i is [i + 1]
    m_members_buffer,   \* the committed member objects, the one at offset i is [i + 1]
    m_relations,        \* std::vector<RelationMeta>
    m_member_meta,      \* std::vector<MemberMeta> m_member_meta[3], by item type
    m_count_complete,   \* int m_count_complete
    events,             \* the hooks called so far and what they were given
    pass1_log           \* the relations handed to pass 1, where they are logged

collVars == <<ndebug, track, phase, k2, m_relations_buffer, m_members_buffer,
              m_relations, m_member_meta, m_count_complete, events, pass1_log>>

VARIABLES
    m_input_done,  \* Reader: std::atomic<bool> m_input_done
    m_childpid,    \* Reader: int m_childpid, 0 when the input is a local file
    child,         \* the subprocess: "none", "exits_ok", "exits_error" or "reaped"
    closes         \* what the calls of Reader::close() did, in order

readerVars == <<m_input_done, m_childpid, child, closes>>

VARIABLES
    pbf_primitive_block, \* PBFPrimitiveBlockParser: the block parsed from m_data
    m_read_types,        \* PBFPrimitiveBlockParser: the entity kinds asked for
    m_buffer             \* PBFPrimitiveBlockParser: what operator() gave

blockVars == <<pbf_primitive_block, m_read_types, m_buffer>>

VARIABLES
    open_fds,      \* the descriptors open in the process
    bz_input,      \* the contents of the file behind the caller's descriptor
    bz_fd,         \* the descriptor the Bzip2Decompressor is constructed on
    count2,        \* count_fds() just before the construction
    decomp,        \* the Bzip2Decompressor
    bz_calls       \* the calls made on the decompressor and on fd, in order

bzVars == <<open_fds, bz_input, bz_fd, count2, decomp, bz_calls>>

vars == <<pbfVars, collVars, readerVars, blockVars, bzVars>>

FrameAt(i) == IF i \in 1..Len(file) THEN file[i] ELSE NoFrame

(***************************************************************************)
(* InputQueueReader::operator(): TRUE when size bytes could be taken for   *)
(* the given part of the frame (1 prefix, 2 BlobHeader, 3 payload), FALSE  *)
(* when the end of the input came first, however many bytes came before.   *)
(***************************************************************************)
InputQueueReader(f, part, size) ==
    IF size = 0 THEN TRUE ELSE f.parts >= part

\* what a function of the reader gives back: an exception or a size; reads
\* counts the calls of the InputQueueReader made for the frame so far
Throw(msg, reads) == [kind |-> "throw", size |-> 0, what |-> msg, reads |-> reads]
Size(s, reads)    == [kind |-> "size", size |-> s, what |-> "", reads |-> reads]

\* read_blob_header without the comparison of the type
read_blob_header_anytype(expected_type, f) ==
    IF ~InputQueueReader(f, 1, 4) THEN Size(0, 1)
    ELSE IF f.hsize > max_blob_header_size
         THEN Throw("invalid BlobHeader size (> max_blob_header_size)", 1)
    ELSE IF ~InputQueueReader(f, 2, f.hsize) THEN Throw("read error", 2)
    ELSE IF ~f.hparse THEN Throw("failed to parse BlobHeader", 2)
    ELSE Size(f.datasize, 2)

\* read_blob_header that also refuses a BlobHeader of max_blob_header_size
read_blob_header_ge(expected_type, f) ==
    IF ~InputQueueReader(f, 1, 4) THEN Size(0, 1)
    ELSE IF f.hsize >= max_blob_header_size
         THEN Throw("invalid BlobHeader size (> max_blob_header_size)", 1)
    ELSE IF ~InputQueueReader(f, 2, f.hsize) THEN Throw("read error", 2)
    ELSE IF ~f.hparse THEN Throw("failed to parse BlobHeader", 2)
    ELSE IF f.type # expected_type THEN Throw("blob does not have expected type", 2)
    ELSE Size(f.datasize, 2)

\* PBFInputFormat::read_blob_header
read_blob_header(expected_type, f) ==
    IF ~InputQueueReader(f, 1, 4) THEN Size(0, 1)
    ELSE IF f.hsize > max_blob_header_size
         THEN Throw("invalid BlobHeader size (> max_blob_header_size)", 1)
    ELSE IF ~InputQueueReader(f, 2, f.hsize) THEN Throw("read error", 2)
    ELSE IF ~f.hparse THEN Throw("failed to parse BlobHeader", 2)
    ELSE IF f.type # expected_type THEN Throw("blob does not have expected type", 2)
    ELSE Size(f.datasize, 2)

\* BlobParser::BlobParser: the member initialiser new unsigned char[size]
\* runs before the check of the size
BlobParserCtor(size, f, reads) ==
    IF size < 0 THEN Throw("std::bad_alloc", reads)
    ELSE IF size > max_uncompressed_blob_size THEN Throw("invalid blob size", reads)
    ELSE IF ~InputQueueReader(f, 3, size) THEN Throw("truncated data (EOF encountered)", reads + 1)
    ELSE Size(size, reads + 1)

\* the bytes of the payload variant of the Blob of frame f
Deflate(data) == <<"deflate", data>>
Payload(f) == IF f.blob = "zlib" THEN Deflate(<<f.block, f.features>>)
              ELSE <<f.block, f.features>>

\* a result of decoding: state is "value", "exception" or "abort" (a failed
\* assert), data is what was handed to handle_blob
Result(state, what, data, flags) ==
    [state |-> state, what |-> what, data |-> data, flags |-> flags]
NoData == <<"", <<>>>>
NoFlags == [pbf_dense_nodes |-> FALSE, has_multiple_object_versions |-> FALSE]
Failure(what) == Result("exception", what, NoData, NoFlags)

\* zlib_uncompress(data, raw_size): the bytes that were deflated, when the
\* output buffer of raw_size bytes can be allocated and is large enough
zlib_uncompress(data, raw_size) ==
    IF raw_size < 0 THEN Failure("std::bad_alloc")
    ELSE IF Len(data) = 2 /\ data[1] = "deflate"
         THEN Result("value", "", data[2], NoFlags)
    ELSE Failure("failed to uncompress data")

\* required_features that skips a feature it does not know
RECURSIVE required_features_lenient(_, _, _)
required_features_lenient(features, i, flags) ==
    IF i > Len(features) THEN Result("value", "", NoData, flags)
    ELSE IF features[i] = "DenseNodes"
         THEN required_features_lenient(features, i + 1,
                                        [flags EXCEPT !.pbf_dense_nodes = TRUE])
    ELSE IF features[i] = "HistoricalInformation"
         THEN required_features_lenient(features, i + 1,
                                        [flags EXCEPT !.has_multiple_object_versions = TRUE])
    ELSE required_features_lenient(features, i + 1, flags)

\* HeaderBlobParser::handle_blob, the loop over required_features
RECURSIVE required_features(_, _, _)
required_features(features, i, flags) ==
    IF i > Len(features) THEN Result("value", "", NoData, flags)
    ELSE IF features[i] = "OsmSchema-V0.6"
         THEN required_features(features, i + 1, flags)
    ELSE IF features[i] = "DenseNodes"
         THEN required_features(features, i + 1, [flags EXCEPT !.pbf_dense_nodes = TRUE])
    ELSE IF features[i] = "HistoricalInformation"
         THEN required_features(features, i + 1,
                                [flags EXCEPT !.has_multiple_object_versions = TRUE])
    ELSE Result("exception", "required feature not supported", NoData, flags)

\* HeaderBlobParser::handle_blob and DataBlobParser::handle_blob /
\* PBFPrimitiveBlockParser::operator(), as far as the pipeline sees them:
\* a buffer or header, or an exception
handle_blob(derived, data) ==
    IF Len(data) # 2 \/ data[1] # "ok"
    THEN [Failure(IF derived = "header" THEN "failed to parse HeaderBlock"
                  ELSE "failed to parse PrimitiveBlock") EXCEPT !.data = data]
    ELSE IF derived = "header"
         THEN [required_features(data[2], 1, NoFlags) EXCEPT !.data = data]
    ELSE Result("value", "", data, NoFlags)

\* BlobParserCall that hands zlib_data to handle_blob as it is
BlobParserCall_nounzip(derived, f, size, nd) ==
    IF size = 0 THEN Failure("blob contains no data")
    ELSE IF f.blob = "unparsable" THEN Failure("failed to parse blob")
    ELSE IF f.blob = "raw" THEN handle_blob(derived, Payload(f))
    ELSE IF f.blob = "zlib" THEN handle_blob(derived, Payload(f))
    ELSE IF f.blob = "lzma" THEN Failure("lzma blobs not implemented")
    ELSE Failure("blob contains no data")

\* BlobParser::operator() and BlobParser::doit, for a blob of size bytes
\* (a blob of 0 bytes parses as a Blob without any payload variant);
\* nd is TRUE when assert() is compiled out
BlobParserCall(derived, f, size, nd) ==
    IF size = 0 THEN Failure("blob contains no data")
    ELSE IF f.blob = "unparsable" THEN Failure("failed to parse blob")
    ELSE IF f.blob = "raw" THEN handle_blob(derived, Payload(f))
    ELSE IF f.blob = "zlib"
         THEN IF ~nd /\ (f.raw_size < 0 \/ f.raw_size > max_uncompressed_blob_size)
              THEN Result("abort", "assert", NoData, NoFlags)
              ELSE LET u == zlib_uncompress(Payload(f), f.raw_size)
                   IN  IF u.state = "value" THEN handle_blob(derived, u.data) ELSE u
    ELSE IF f.blob = "lzma" THEN Failure("lzma blobs not implemented")
    ELSE Failure("blob contains no data")

\* no exception so far
NoThrow == [by |-> "none", what |-> "", reads |-> 0]
Thrown(by, t) == [by |-> by, what |-> t.what, reads |-> t.reads]

\* std::terminate or abort was called: the process is gone
Aborted == p_pc = "terminate" \/ thrown.by = "assert" \/ c_pc = "terminated"

Kinds == {"node", "way", "relation"}

\* the collector before read_relations, nothing stored
CollectorEmpty ==
    /\ k2 = 0
    /\ m_relations_buffer = <<>>
    /\ m_members_buffer = <<>>
    /\ m_relations = <<>>
    /\ m_member_meta = [t \in Kinds |-> <<>>]
    /\ m_count_complete = 0
    /\ events = <<>>
    /\ pass1_log = <<>>

\* a Reader on a local file: no subprocess, close() not called
ReaderLocal ==
    /\ m_input_done = FALSE
    /\ m_childpid = 0
    /\ child = "none"
    /\ closes = <<>>

\* the buffer of a parser that has not run
NotParsed == [state |-> "none", what |-> "", nodes |-> <<>>, cursors |-> <<>>]

\* no PBFPrimitiveBlockParser at work
BlockParserIdle ==
    /\ pbf_primitive_block = <<>>
    /\ m_read_types = Kinds
    /\ m_buffer = NotParsed

\* the Bzip2Decompressor before its construction: its state, the descriptor
\* it holds and the number of chunks it has given
NoDecompressor == [state |-> "none", m_file |-> -1, chunks |-> 0]

\* no Bzip2Decompressor at work
Bzip2Idle ==
    /\ open_fds = {}
    /\ bz_input = <<>>
    /\ bz_fd = -1
    /\ count2 = 0
    /\ decomp = NoDecompressor
    /\ bz_calls = <<>>

Init ==
    /\ ndebug = TRUE
    /\ track = [t \in Kinds |-> TRUE]
    /\ phase = "idle"
    /\ CollectorEmpty
    /\ file \in Files
    /\ read_types \in ReadTypes
    /\ cursor = 1
    /\ p_pc = "not_started"
    /\ p_frame = NoFrame
    /\ n = 0
    /\ m_done = FALSE
    /\ m_queue = <<>>
    /\ work_queue = <<>>
    /\ running = [w \in Workers |-> -1]
    /\ tasks = <<>>
    /\ c_pc = "ctor"
    /\ c_fut = -1
    /\ delivered = <<>>
    /\ m_header = NoFlags
    /\ thrown = NoThrow
    /\ ReaderLocal
    /\ BlockParserIdle
    /\ Bzip2Idle

(***************************************************************************)
(* Files for the framing and decoding rules: short files over every kind   *)
(* of frame, in both builds.                                               *)
(***************************************************************************)
\* number of frames that follow the header frame in these files
MaxFrames == 1

HeaderDense      == [HeaderGood EXCEPT !.features = <<"OsmSchema-V0.6", "DenseNodes">>]
HeaderHistory    == [HeaderGood EXCEPT !.features = <<"HistoricalInformation">>]
HeaderExoticLate == [HeaderGood EXCEPT !.features = <<"DenseNodes", "SomethingExotic">>]
HeaderZlib       == [HeaderDense EXCEPT !.blob = "zlib", !.raw_size = 60]
HeaderUnparsed   == [HeaderGood EXCEPT !.block = "corrupt"]
PartialPrefix    == Frame(0, TRUE, 0, FALSE, "", 0, "none", 0, "ok")
HeaderCut        == [HeaderGood EXCEPT !.parts = 1, !.stray = TRUE]
DataHeaderCut    == [DataGood EXCEPT !.parts = 1, !.stray = TRUE]
DataMaxHeader    == [DataGood EXCEPT !.hsize = max_blob_header_size]
DataBadHeader    == [DataGood EXCEPT !.hparse = FALSE]
\* a length prefix far beyond the limit (the prefix is a uint32_t and is
\* compared as one)
DataGiantHeader  == [DataBigHeader EXCEPT !.hsize = 2147483647]
HeaderBigHeader  == [HeaderGood EXCEPT !.hsize = max_blob_header_size + 1,
                                       !.parts = 1, !.stray = TRUE]
DataZlibMax      == [DataZlib EXCEPT !.raw_size = max_uncompressed_blob_size]
DataZlibHuge     == [DataZlib EXCEPT !.raw_size = max_uncompressed_blob_size + 1]
DataZlibNegative == [DataZlib EXCEPT !.raw_size = -1]
DataMaxSize      == [DataGood EXCEPT !.datasize = max_uncompressed_blob_size]
DataHugeSize     == [DataGood EXCEPT !.datasize = max_uncompressed_blob_size + 1, !.parts = 2]
DataNegativeSize == [DataGood EXCEPT !.datasize = -1, !.parts = 2]
DataNoVariant    == [DataGood EXCEPT !.blob = "none"]
DataUnparsable   == [DataGood EXCEPT !.blob = "unparsable"]

FramingHeaderFrames ==
    HeaderFrames \cup {HeaderDense, HeaderHistory, HeaderExoticLate, HeaderZlib,
                       HeaderUnparsed, PartialPrefix, HeaderCut, HeaderBigHeader}
FramingDataFrames ==
    DataFrames \cup {PartialPrefix, DataHeaderCut, DataMaxHeader, DataBadHeader,
                     DataGiantHeader,
                     DataZlibMax, DataZlibHuge, DataZlibNegative, DataMaxSize,
                     DataHugeSize, DataNegativeSize, DataNoVariant, DataUnparsable}

FramingFiles ==
    {<<>>} \cup
    {f \in {<<h>> \o d : h \in FramingHeaderFrames,
                         d \in SeqsUpTo(FramingDataFrames, MaxFrames)} :
        WellFormedFile(f)}

InitFraming ==
    /\ ndebug \in BOOLEAN
    /\ track = [t \in Kinds |-> TRUE]
    /\ phase = "idle"
    /\ CollectorEmpty
    /\ file \in FramingFiles
    /\ read_types = "all"
    /\ cursor = 1
    /\ p_pc = "not_started"
    /\ p_frame = NoFrame
    /\ n = 0
    /\ m_done = FALSE
    /\ m_queue = <<>>
    /\ work_queue = <<>>
    /\ running = [w \in Workers |-> -1]
    /\ tasks = <<>>
    /\ c_pc = "ctor"
    /\ c_fut = -1
    /\ delivered = <<>>
    /\ m_header = NoFlags
    /\ thrown = NoThrow
    /\ ReaderLocal
    /\ BlockParserIdle
    /\ Bzip2Idle

\* the constructor without the test of m_read_which_entities: the reader
\* thread is always started
Construct_always_thread ==
    /\ ~Aborted
    /\ c_pc = "ctor"
    /\ LET f == FrameAt(cursor)
           r == read_blob_header("OSMHeader", f)
           \* on EOF (size 0) the header parser is built for a blob of 0 bytes
           c == IF r.kind = "throw" THEN r ELSE BlobParserCtor(r.size, f, r.reads)
           d == BlobParserCall("header", f, c.size, ndebug)
       IN  IF c.kind = "throw"
           THEN /\ c_pc' = "ctor_failed"
                /\ thrown' = Thrown("ctor", c)
                /\ UNCHANGED <<cursor, p_pc, m_header>>
           ELSE IF d.state = "abort"
           THEN /\ c_pc' = "ctor_failed"
                /\ thrown' = [by |-> "assert", what |-> d.what, reads |-> c.reads]
                /\ UNCHANGED <<cursor, p_pc, m_header>>
           ELSE IF d.state = "exception"
           THEN /\ c_pc' = "ctor_failed"
                /\ thrown' = [by |-> "ctor", what |-> d.what, reads |-> c.reads]
                /\ m_header' = d.flags
                /\ UNCHANGED <<cursor, p_pc>>
           ELSE /\ c_pc' = "idle"
                /\ cursor' = cursor + 1
                /\ m_header' = d.flags
                /\ p_pc' = "read_header"
                /\ UNCHANGED thrown
    /\ UNCHANGED <<collVars, readerVars, blockVars, bzVars>>
    /\ UNCHANGED <<file, read_types, p_frame, n, m_done, m_queue, work_queue,
                   running, tasks, c_fut, delivered>>

(***************************************************************************)
(* PBFInputFormat::PBFInputFormat: the header frame is read and decoded in *)
(* the constructing thread, then the reader thread is started.             *)
(***************************************************************************)
Construct ==
    /\ ~Aborted
    /\ c_pc = "ctor"
    /\ LET f == FrameAt(cursor)
           r == read_blob_header("OSMHeader", f)
           \* on EOF (size 0) the header parser is built for a blob of 0 bytes
           c == IF r.kind = "throw" THEN r ELSE BlobParserCtor(r.size, f, r.reads)
           d == BlobParserCall("header", f, c.size, ndebug)
       IN  IF c.kind = "throw"
           THEN /\ c_pc' = "ctor_failed"
                /\ thrown' = Thrown("ctor", c)
                /\ UNCHANGED <<cursor, p_pc, m_header>>
           ELSE IF d.state = "abort"
           THEN /\ c_pc' = "ctor_failed"
                /\ thrown' = [by |-> "assert", what |-> d.what, reads |-> c.reads]
                /\ UNCHANGED <<cursor, p_pc, m_header>>
           ELSE IF d.state = "exception"
           THEN /\ c_pc' = "ctor_failed"
                /\ thrown' = [by |-> "ctor", what |-> d.what, reads |-> c.reads]
                /\ m_header' = d.flags
                /\ UNCHANGED <<cursor, p_pc>>
           ELSE /\ c_pc' = "idle"
                /\ cursor' = cursor + 1
                /\ m_header' = d.flags
                /\ p_pc' = IF read_types # "nothing" THEN "read_header" ELSE p_pc
                /\ UNCHANGED thrown
    /\ UNCHANGED <<collVars, readerVars, blockVars, bzVars>>
    /\ UNCHANGED <<file, read_types, p_frame, n, m_done, m_queue, work_queue,
                   running, tasks, c_fut, delivered>>

(***************************************************************************)
(* PBFInputFormat::parse_osm_data, the reader thread                       *)
(***************************************************************************)
\* the loop left only at the end of the input, not at a datasize of 0
P_ReadHeader_eof_only ==
    /\ ~Aborted
    /\ p_pc = "read_header"
    /\ LET f == FrameAt(cursor)
           r == read_blob_header("OSMData", f)
           c == IF r.kind = "throw" THEN r ELSE BlobParserCtor(r.size, f, r.reads)
       IN  IF r.kind = "throw" \/ (r.size # 0 /\ c.kind = "throw")
           THEN \* nothing in parse_osm_data catches: std::terminate
                /\ p_pc' = "terminate"
                /\ thrown' = Thrown("reader", c)
                /\ UNCHANGED <<cursor, p_frame>>
           ELSE IF r.size = 0 /\ r.reads = 1
           THEN /\ p_pc' = "set_done"
                /\ UNCHANGED <<cursor, p_frame, thrown>>
           ELSE /\ p_pc' = "submit"
                /\ p_frame' = f
                /\ cursor' = cursor + 1
                /\ UNCHANGED thrown
    /\ UNCHANGED <<collVars, readerVars, blockVars, bzVars>>
    /\ UNCHANGED <<file, read_types, m_header, n, m_done, m_queue, work_queue,
                   running, tasks, c_pc, c_fut, delivered>>

\* while (int size = read_blob_header("OSMData")) { DataBlobParser data_blob_parser(...)
P_ReadHeader ==
    /\ ~Aborted
    /\ p_pc = "read_header"
    /\ LET f == FrameAt(cursor)
           r == read_blob_header("OSMData", f)
           c == IF r.kind = "throw" THEN r ELSE BlobParserCtor(r.size, f, r.reads)
       IN  IF r.kind = "throw" \/ (r.size # 0 /\ c.kind = "throw")
           THEN \* nothing in parse_osm_data catches: std::terminate
                /\ p_pc' = "terminate"
                /\ thrown' = Thrown("reader", c)
                /\ UNCHANGED <<cursor, p_frame>>
           ELSE IF r.size = 0
           THEN /\ p_pc' = "set_done"
                /\ UNCHANGED <<cursor, p_frame, thrown>>
           ELSE /\ p_pc' = "submit"
                /\ p_frame' = f
                /\ cursor' = cursor + 1
                /\ UNCHANGED thrown
    /\ UNCHANGED <<collVars, readerVars, blockVars, bzVars>>
    /\ UNCHANGED <<file, read_types, m_header, n, m_done, m_queue, work_queue,
                   running, tasks, c_pc, c_fut, delivered>>

\* Pool::instance().submit(data_blob_parser)
P_Submit ==
    /\ ~Aborted
    /\ p_pc = "submit"
    /\ work_queue' = Append(work_queue, n)
    /\ tasks' = Append(tasks, [frame |-> p_frame, state |-> "pending", what |-> "", data |-> NoData])
    /\ p_pc' = "push"
    /\ UNCHANGED <<collVars, readerVars, blockVars, bzVars>>
    /\ UNCHANGED <<file, read_types, m_header, thrown, cursor, p_frame, n, m_done, m_queue,
                   running, c_pc, c_fut, delivered>>

\* P_Push with the future put at the head of the queue
P_Push_front ==
    /\ ~Aborted
    /\ p_pc = "push"
    /\ m_queue' = <<n>> \o m_queue
    /\ p_pc' = "wait_work"
    /\ UNCHANGED <<collVars, readerVars, blockVars, bzVars>>
    /\ UNCHANGED <<file, read_types, m_header, thrown, cursor, p_frame, n, m_done, work_queue,
                   running, tasks, c_pc, c_fut, delivered>>

\* m_queue.push(future)
P_Push ==
    /\ ~Aborted
    /\ p_pc = "push"
    /\ m_queue' = Append(m_queue, n)
    /\ p_pc' = "wait_work"
    /\ UNCHANGED <<collVars, readerVars, blockVars, bzVars>>
    /\ UNCHANGED <<file, read_types, m_header, thrown, cursor, p_frame, n, m_done, work_queue,
                   running, tasks, c_pc, c_fut, delivered>>

\* P_WaitWork without the wait for the pool
P_WaitWork_nowait ==
    /\ ~Aborted
    /\ p_pc = "wait_work"
    /\ p_pc' = "wait_buffer"
    /\ n' = n + 1
    /\ UNCHANGED <<collVars, readerVars, blockVars, bzVars>>
    /\ UNCHANGED <<file, read_types, m_header, thrown, cursor, p_frame, m_done, m_queue,
                   work_queue, running, tasks, c_pc, c_fut, delivered>>

\* while (!m_done && Pool::instance().queue_size() >= m_max_work_queue_size) sleep; ++n
P_WaitWork ==
    /\ ~Aborted
    /\ p_pc = "wait_work"
    /\ IF ~m_done /\ Len(work_queue) >= MaxWorkQueue
       THEN UNCHANGED <<p_pc, n>>
       ELSE /\ p_pc' = "wait_buffer"
            /\ n' = n + 1
    /\ UNCHANGED <<collVars, readerVars, blockVars, bzVars>>
    /\ UNCHANGED <<file, read_types, m_header, thrown, cursor, p_frame, m_done, m_queue,
                   work_queue, running, tasks, c_pc, c_fut, delivered>>

\* while (!m_done && m_queue.size() > m_max_buffer_queue_size) sleep
P_WaitBuffer ==
    /\ ~Aborted
    /\ p_pc = "wait_buffer"
    /\ IF ~m_done /\ Len(m_queue) > MaxBufferQueue
       THEN UNCHANGED p_pc
       ELSE p_pc' = "check_done"
    /\ UNCHANGED <<collVars, readerVars, blockVars, bzVars>>
    /\ UNCHANGED <<file, read_types, m_header, thrown, cursor, p_frame, n, m_done, m_queue,
                   work_queue, running, tasks, c_pc, c_fut, delivered>>

\* if (m_done) return
P_CheckDone ==
    /\ ~Aborted
    /\ p_pc = "check_done"
    /\ p_pc' = IF m_done THEN "exited" ELSE "read_header"
    /\ UNCHANGED <<collVars, readerVars, blockVars, bzVars>>
    /\ UNCHANGED <<file, read_types, m_header, thrown, cursor, p_frame, n, m_done, m_queue,
                   work_queue, running, tasks, c_pc, c_fut, delivered>>

\* m_done = true, after the loop
P_SetDone ==
    /\ ~Aborted
    /\ p_pc = "set_done"
    /\ m_done' = TRUE
    /\ p_pc' = "exited"
    /\ UNCHANGED <<collVars, readerVars, blockVars, bzVars>>
    /\ UNCHANGED <<file, read_types, m_header, thrown, cursor, p_frame, n, m_queue, work_queue,
                   running, tasks, c_pc, c_fut, delivered>>

(***************************************************************************)
(* The thread pool: a worker takes the oldest task and runs                *)
(* BlobParser::operator(); the result or the exception goes to the future. *)
(***************************************************************************)
W_Start(w) ==
    /\ ~Aborted
    /\ running[w] = -1
    /\ work_queue # <<>>
    /\ running' = [running EXCEPT ![w] = Head(work_queue)]
    /\ work_queue' = Tail(work_queue)
    /\ UNCHANGED <<collVars, readerVars, blockVars, bzVars>>
    /\ UNCHANGED <<file, read_types, m_header, thrown, cursor, p_pc, p_frame, n, m_done, m_queue,
                   tasks, c_pc, c_fut, delivered>>

W_Finish(w) ==
    /\ ~Aborted
    /\ running[w] # -1
    /\ LET k == running[w] + 1
           d == BlobParserCall("data", tasks[k].frame, tasks[k].frame.datasize, ndebug)
       IN  IF d.state = "abort"
           THEN \* a failed assert in the worker: abort()
                /\ thrown' = [by |-> "assert", what |-> d.what, reads |-> 0]
                /\ UNCHANGED <<tasks, running>>
           ELSE /\ tasks' = [tasks EXCEPT ![k].state = d.state,
                                          ![k].what = d.what,
                                          ![k].data = d.data]
                /\ running' = [running EXCEPT ![w] = -1]
                /\ UNCHANGED thrown
    /\ UNCHANGED <<collVars, readerVars, blockVars, bzVars>>
    /\ UNCHANGED <<file, read_types, m_header, cursor, p_pc, p_frame, n, m_done,
                   m_queue, work_queue, c_pc, c_fut, delivered>>

(***************************************************************************)
(* The consumer: Reader::read and PBFInputFormat::read                     *)
(***************************************************************************)
Buf(k) == [kind |-> "buffer", blob |-> k]
Err(k) == [kind |-> "error", blob |-> k]
Eos    == [kind |-> "eos", blob |-> -1]

EosSeen == delivered # <<>> /\ delivered[Len(delivered)] = Eos

\* Reader::read: an empty buffer when nothing but the header was asked for
\* (m_read_task.check_for_exception() finds no exception: the input thread,
\* which fills the input queue, is taken to have read the file without error)
C_Read ==
    /\ ~Aborted
    /\ c_pc = "idle"
    /\ ~EosSeen
    /\ ~m_input_done
    /\ IF read_types = "nothing"
       THEN /\ delivered' = Append(delivered, Eos)
            /\ UNCHANGED c_pc
       ELSE /\ c_pc' = "check_done"
            /\ UNCHANGED delivered
    /\ UNCHANGED <<collVars, readerVars, blockVars, bzVars>>
    /\ UNCHANGED <<file, read_types, m_header, thrown, cursor, p_pc, p_frame, n, m_done, m_queue,
                   work_queue, running, tasks, c_fut>>

\* if (!m_done || ...
C_CheckDone ==
    /\ ~Aborted
    /\ c_pc = "check_done"
    /\ c_pc' = IF ~m_done THEN "pop" ELSE "check_empty"
    /\ UNCHANGED <<collVars, readerVars, blockVars, bzVars>>
    /\ UNCHANGED <<file, read_types, m_header, thrown, cursor, p_pc, p_frame, n, m_done, m_queue,
                   work_queue, running, tasks, c_fut, delivered>>

\* read() that tests m_done only: end of stream whatever the queue holds
C_CheckEmpty_done_only ==
    /\ ~Aborted
    /\ c_pc = "check_empty"
    /\ c_pc' = "idle"
    /\ delivered' = Append(delivered, Eos)
    /\ UNCHANGED <<collVars, readerVars, blockVars, bzVars>>
    /\ UNCHANGED <<file, read_types, m_header, thrown, cursor, p_pc, p_frame, n, m_done, m_queue,
                   work_queue, running, tasks, c_fut>>

\* ... || !m_queue.empty()) ... else return osmium::memory::Buffer()
C_CheckEmpty ==
    /\ ~Aborted
    /\ c_pc = "check_empty"
    /\ IF m_queue # <<>>
       THEN /\ c_pc' = "pop"
            /\ UNCHANGED delivered
       ELSE /\ c_pc' = "idle"
            /\ delivered' = Append(delivered, Eos)
    /\ UNCHANGED <<collVars, readerVars, blockVars, bzVars>>
    /\ UNCHANGED <<file, read_types, m_header, thrown, cursor, p_pc, p_frame, n, m_done, m_queue,
                   work_queue, running, tasks, c_fut>>

\* m_queue.wait_and_pop(buffer_future): blocks while the queue is empty
wait_and_pop ==
    /\ m_queue # <<>>
    /\ c_fut' = Head(m_queue)
    /\ m_queue' = Tail(m_queue)

C_Pop ==
    /\ ~Aborted
    /\ c_pc = "pop"
    /\ wait_and_pop
    /\ c_pc' = "get"
    /\ UNCHANGED <<collVars, readerVars, blockVars, bzVars>>
    /\ UNCHANGED <<file, read_types, m_header, thrown, cursor, p_pc, p_frame, n, m_done,
                   work_queue, running, tasks, delivered>>

\* C_Get with the stored exception dropped: a buffer is returned instead
C_Get_swallow ==
    /\ ~Aborted
    /\ c_pc = "get"
    /\ tasks[c_fut + 1].state # "pending"
    /\ delivered' = Append(delivered, Buf(c_fut))
    /\ c_fut' = -1
    /\ c_pc' = "idle"
    /\ UNCHANGED <<collVars, readerVars, blockVars, bzVars>>
    /\ UNCHANGED <<file, read_types, m_header, thrown, cursor, p_pc, p_frame, n, m_done, m_queue,
                   work_queue, running, tasks>>

\* return buffer_future.get(): blocks until the task is done, rethrows
C_Get ==
    /\ ~Aborted
    /\ c_pc = "get"
    /\ tasks[c_fut + 1].state # "pending"
    /\ delivered' = Append(delivered,
                       IF tasks[c_fut + 1].state = "value" THEN Buf(c_fut) ELSE Err(c_fut))
    /\ c_fut' = -1
    /\ c_pc' = "idle"
    /\ UNCHANGED <<collVars, readerVars, blockVars, bzVars>>
    /\ UNCHANGED <<file, read_types, m_header, thrown, cursor, p_pc, p_frame, n, m_done, m_queue,
                   work_queue, running, tasks>>

(***************************************************************************)
(* PBFInputFormat::~PBFInputFormat                                         *)
(***************************************************************************)
\* m_done = true
\* Reader::close throws: waitpid fails because the subprocess was waited for
\* by an earlier call, or the subprocess did not exit with status 0
CloseThrows == m_childpid # 0 /\ child \in {"exits_error", "reaped"}

\* Reader::close: m_input_done = true; m_input->close(); waitpid and throw,
\* or m_childpid = 0 and m_read_task.close()
close ==
    /\ m_input_done' = TRUE
    /\ child' = IF m_childpid # 0 THEN "reaped" ELSE child
    /\ m_childpid' = IF CloseThrows THEN m_childpid ELSE 0
    /\ closes' = Append(closes, IF CloseThrows THEN "system_error" ELSE "ok")

\* the caller calls Reader::close() and catches what it throws
R_Close ==
    /\ ~Aborted
    /\ c_pc = "idle"
    /\ Len(closes) < MaxClose
    /\ close
    /\ UNCHANGED <<collVars, blockVars, bzVars>>
    /\ UNCHANGED pbfVars

\* ~Reader: close() returns, then the members are destroyed, m_input first:
\* ~PBFInputFormat sets m_done = true
D_SetDone ==
    /\ ~Aborted
    /\ c_pc = "idle"
    /\ ~CloseThrows
    /\ close
    /\ m_done' = TRUE
    /\ c_pc' = "join"
    /\ UNCHANGED <<collVars, blockVars, bzVars>>
    /\ UNCHANGED <<file, read_types, m_header, thrown, cursor, p_pc, p_frame, n, m_queue,
                   work_queue, running, tasks, c_fut, delivered>>

\* D_Join without the join: the destructor does not wait for the thread
D_Join_nowait ==
    /\ ~Aborted
    /\ c_pc = "join"
    /\ m_queue' = <<>>
    /\ c_pc' = "destroyed"
    /\ UNCHANGED <<collVars, readerVars, blockVars, bzVars>>
    /\ UNCHANGED <<file, read_types, m_header, thrown, cursor, p_pc, p_frame, n, m_done,
                   work_queue, running, tasks, c_fut, delivered>>

\* if (m_reader.joinable()) m_reader.join(); the body ends and the members
\* are destroyed, m_queue and the futures it still holds among them
D_Join ==
    /\ ~Aborted
    /\ c_pc = "join"
    /\ p_pc \in {"not_started", "exited"}
    /\ m_queue' = <<>>
    /\ c_pc' = "destroyed"
    /\ UNCHANGED <<collVars, readerVars, blockVars, bzVars>>
    /\ UNCHANGED <<file, read_types, m_header, thrown, cursor, p_pc, p_frame, n, m_done,
                   work_queue, running, tasks, c_fut, delivered>>

\* ~Reader: close() throws; the exception leaves a destructor, which is
\* noexcept, and std::terminate is called
D_Terminate ==
    /\ ~Aborted
    /\ c_pc = "idle"
    /\ CloseThrows
    /\ close
    /\ c_pc' = "terminated"
    /\ UNCHANGED <<collVars, blockVars, bzVars>>
    /\ UNCHANGED <<file, read_types, m_header, thrown, cursor, p_pc, p_frame, n, m_done,
                   m_queue, work_queue, running, tasks, c_fut, delivered>>

Next ==
    \/ Construct
    \/ P_ReadHeader
    \/ P_Submit
    \/ P_Push
    \/ P_WaitWork
    \/ P_WaitBuffer
    \/ P_CheckDone
    \/ P_SetDone
    \/ \E w \in Workers : W_Start(w)
    \/ \E w \in Workers : W_Finish(w)
    \/ C_Read
    \/ C_CheckDone
    \/ C_CheckEmpty
    \/ C_Pop
    \/ C_Get
    \/ D_SetDone
    \/ D_Join

Spec == Init /\ [][Next]_vars

(***************************************************************************)
(* Scheduling: the reader thread, the pool workers and a call of read()    *)
(* that is under way keep running; whether the caller calls read() again   *)
(* or destroys the input is up to the caller.                              *)
(***************************************************************************)
Fairness ==
    /\ WF_vars(Construct)
    /\ WF_vars(P_ReadHeader)
    /\ WF_vars(P_Submit)
    /\ WF_vars(P_Push)
    /\ WF_vars(P_WaitWork)
    /\ WF_vars(P_WaitBuffer)
    /\ WF_vars(P_CheckDone)
    /\ WF_vars(P_SetDone)
    /\ \A w \in Workers : WF_vars(W_Start(w)) /\ WF_vars(W_Finish(w))
    /\ WF_vars(C_CheckDone)
    /\ WF_vars(C_CheckEmpty)
    /\ WF_vars(C_Pop)
    /\ WF_vars(C_Get)
    /\ WF_vars(D_Join)

FairSpec == Spec /\ Fairness

\* the pipeline over the files of the framing and decoding rules
SpecFraming == InitFraming /\ [][Next]_vars

(***************************************************************************)
(* A Reader whose input is a local file or the output of a subprocess,     *)
(* closed by the caller or not before it is destroyed.                     *)
(***************************************************************************)
ReaderFiles ==
    {<<HeaderGood>> \o d : d \in SeqsUpTo({DataGood, DataCorrupt}, MaxBlobs)}

InitReader ==
    /\ ndebug = TRUE
    /\ track = [t \in Kinds |-> TRUE]
    /\ phase = "idle"
    /\ CollectorEmpty
    /\ file \in ReaderFiles
    /\ read_types \in ReadTypes
    /\ cursor = 1
    /\ p_pc = "not_started"
    /\ p_frame = NoFrame
    /\ n = 0
    /\ m_done = FALSE
    /\ m_queue = <<>>
    /\ work_queue = <<>>
    /\ running = [w \in Workers |-> -1]
    /\ tasks = <<>>
    /\ c_pc = "ctor"
    /\ c_fut = -1
    /\ delivered = <<>>
    /\ m_header = NoFlags
    /\ thrown = NoThrow
    /\ m_input_done = FALSE
    /\ m_childpid \in {0, 1}
    /\ child \in IF m_childpid = 0 THEN {"none"} ELSE {"exits_ok", "exits_error"}
    /\ closes = <<>>
    /\ BlockParserIdle
    /\ Bzip2Idle

NextReader ==
    \/ Next
    \/ R_Close
    \/ D_Terminate

SpecReader == InitReader /\ [][NextReader]_vars

(***************************************************************************)
(* The relation collector (relations/collector.hpp)                        *)
(***************************************************************************)
\* number of relations kept by pass 1
MaxRelations == 3
\* number of objects handed to pass 2
MaxObjects == 3
\* number of relations handed to pass 1 where the calls are logged
MaxPass1 == 2
\* completions between two purges (1000 in the source), scaled to the inputs
PurgeEvery == 1

Member(t, r) == [type |-> t, ref |-> r]
Object(t, i) == [type |-> t, id |-> i]

\* the member lists of the relations of the input
MemberLists ==
    { <<>>,
      <<Member("way", 1)>>,
      <<Member("way", 2)>>,
      <<Member("way", 2), Member("node", 1)>>,
      <<Member("relation", 1)>> }

\* the objects of the input of pass 2
Objects ==
    { Object("way", 1), Object("way", 2), Object("node", 1), Object("relation", 1) }

\* the instantiations of Collector<TCollector, TNodes, TWays, TRelations>
Tracks ==
    { [t \in Kinds |-> TRUE],
      [t \in Kinds |-> t = "way"] }

NoOffset == -1
NoObject == Object("none", 0)

\* RelationMeta: where the relation is stored, how many members it needs and
\* how many of them have been found
RelationMeta(offset) ==
    [relation_offset |-> offset, members_needed |-> 0, members_found |-> 0]

increment_need_members(rm) == [rm EXCEPT !.members_needed = @ + 1]

got_one_member(rm) == [rm EXCEPT !.members_found = @ + 1]

has_all_members(rm) == rm.members_found = rm.members_needed

\* a slot overwritten with RelationMeta() after its relation was completed
Tombstoned(rm) == rm.relation_offset = 0 /\ rm.members_needed = 0

\* MemberMeta(member_id, relation_pos, member_pos), no buffer offset yet
MemberMeta(id, relation_pos, member_pos) ==
    [member_id |-> id, relation_pos |-> relation_pos, member_pos |-> member_pos,
     buffer_offset |-> NoOffset]

\* Buffer::get<T>(offset); an offset outside the buffer gives no object
ObjectAt(buffer, offset) ==
    IF offset \in 0..(Len(buffer) - 1) THEN buffer[offset + 1] ELSE NoObject

\* std::equal_range(mmv.begin(), mmv.end(), MemberMeta(id)), as index set
equal_range(mmv, id) == {i \in 1..Len(mmv) : mmv[i].member_id = id}

InitCollector ==
    /\ ndebug \in BOOLEAN
    /\ track \in Tracks
    /\ phase = "pass1"
    /\ CollectorEmpty
    /\ file = <<>>
    /\ read_types = "all"
    /\ cursor = 1
    /\ p_pc = "not_started"
    /\ p_frame = NoFrame
    /\ n = 0
    /\ m_done = FALSE
    /\ m_queue = <<>>
    /\ work_queue = <<>>
    /\ running = [w \in Workers |-> -1]
    /\ tasks = <<>>
    /\ c_pc = "ctor"
    /\ c_fut = -1
    /\ delivered = <<>>
    /\ m_header = NoFlags
    /\ thrown = NoThrow
    /\ ReaderLocal
    /\ BlockParserIdle
    /\ Bzip2Idle

(***************************************************************************)
(* Pass 1: HandlerPass1::relation and Collector::add_relation              *)
(***************************************************************************)
\* the loop of add_relation over the members of the copy at the end of buf;
\* acc holds the buffer, the member vectors and the RelationMeta being built
RECURSIVE add_members(_, _, _, _)
add_members(acc, keep_member, slot, i) ==
    LET members == acc.buf[Len(acc.buf)].members
    IN  IF i > Len(members) THEN acc
        ELSE LET member == members[i]
             IN  IF keep_member[i]
                 THEN add_members(
                        [acc EXCEPT !.meta[member.type] =
                                        Append(@, MemberMeta(member.ref, slot, i - 1)),
                                    !.rm = increment_need_members(@)],
                        keep_member, slot, i + 1)
                 ELSE add_members(
                        [acc EXCEPT !.buf[Len(acc.buf)].members[i].ref = 0],
                        keep_member, slot, i + 1)

\* add_relation that commits the relation whatever was kept
add_relation_norollback(relation, keep_member) ==
    LET offset == Len(m_relations_buffer)
        acc == add_members([buf  |-> Append(m_relations_buffer, relation),
                            meta |-> m_member_meta,
                            rm   |-> RelationMeta(offset)],
                           keep_member, Len(m_relations), 1)
    IN  /\ m_member_meta' = acc.meta
        /\ m_relations_buffer' = acc.buf
        /\ m_relations' = Append(m_relations, acc.rm)

add_relation(relation, keep_member) ==
    LET offset == Len(m_relations_buffer)
        acc == add_members([buf  |-> Append(m_relations_buffer, relation),
                            meta |-> m_member_meta,
                            rm   |-> RelationMeta(offset)],
                           keep_member, Len(m_relations), 1)
    IN  /\ m_member_meta' = acc.meta
        /\ IF has_all_members(acc.rm)
           THEN \* m_relations_buffer.rollback()
                UNCHANGED <<m_relations_buffer, m_relations>>
           ELSE \* m_relations_buffer.commit(); m_relations.push_back(...)
                /\ m_relations_buffer' = acc.buf
                /\ m_relations' = Append(m_relations, acc.rm)

\* HandlerPass1::relation, with the answers of the hooks keep_relation and
\* keep_member; when logged, the call is also written to pass1_log and the
\* relation gets its position in the source as id
Pass1Step(logged) ==
    /\ phase = "pass1"
    /\ IF logged THEN Len(pass1_log) < MaxPass1 ELSE Len(m_relations) < MaxRelations
    /\ \E members \in MemberLists, keep_relation \in BOOLEAN :
         \E keep_member \in [1..Len(members) -> BOOLEAN] :
            LET id == (IF logged THEN Len(pass1_log) ELSE Len(m_relations)) + 1
            IN  /\ IF keep_relation
                   THEN add_relation([id |-> id, members |-> members], keep_member)
                   ELSE UNCHANGED <<m_relations_buffer, m_relations, m_member_meta>>
                /\ pass1_log' =
                      IF logged
                      THEN Append(pass1_log,
                                  [id |-> id, keep_relation |-> keep_relation,
                                   kept |-> Cardinality({i \in 1..Len(members) :
                                                            keep_member[i]})])
                      ELSE pass1_log
    /\ UNCHANGED <<ndebug, track, phase, k2, m_members_buffer, m_count_complete, events>>
    /\ UNCHANGED <<pbfVars, readerVars, blockVars, bzVars>>

Pass1Relation == Pass1Step(FALSE)

Pass1RelationLogged == Pass1Step(TRUE)

Remove(seq, c) == SubSeq(seq, 1, c - 1) \o SubSeq(seq, c + 1, Len(seq))

\* the results std::sort may give for a vector compared by member_id only:
\* ascending member_id, elements of equal member_id in any order
RECURSIVE SortOutcomes(_)
SortOutcomes(seq) ==
    IF seq = <<>> THEN {<<>>}
    ELSE LET ids  == {seq[i].member_id : i \in 1..Len(seq)}
             low  == CHOOSE x \in ids : \A y \in ids : x <= y
             cand == {i \in 1..Len(seq) : seq[i].member_id = low}
         IN  UNION { {<<seq[c]>> \o r : r \in SortOutcomes(Remove(seq, c))} : c \in cand }

\* Collector::read_relations after the source is exhausted: sort_member_meta
EndPass1 ==
    /\ phase = "pass1"
    /\ \E sorted \in [Kinds -> UNION {SortOutcomes(m_member_meta[t]) : t \in Kinds}] :
         /\ \A t \in Kinds : sorted[t] \in SortOutcomes(m_member_meta[t])
         /\ m_member_meta' = sorted
    /\ phase' = "pass2"
    /\ UNCHANGED <<ndebug, track, pass1_log, k2, m_relations_buffer, m_members_buffer,
                   m_relations, m_count_complete, events>>
    /\ UNCHANGED <<pbfVars, readerVars, blockVars, bzVars>>

(***************************************************************************)
(* Pass 2: HandlerPass2.  The collector state handled inside one call is   *)
(* the record st: rel (m_relations), meta (m_member_meta), mbuf            *)
(* (m_members_buffer), count (m_count_complete), ev (hooks called) and     *)
(* failed (an assert failed in a build with assertions).                   *)
(***************************************************************************)
\* assert(cond)
debug_check(st, cond) ==
    IF cond \/ ndebug THEN st ELSE [st EXCEPT !.failed = TRUE]

\* Collector::get_offset
get_offset(st, type, id) ==
    LET range == equal_range(st.meta[type], id)
    IN  IF range = {} THEN NoOffset
        ELSE st.meta[type][CHOOSE i \in range : \A j \in range : i <= j].buffer_offset

\* the index entries that belong to a slot, with the object each designates
EntriesOf(st, slot) ==
    UNION { { [type |-> t,
               member_id |-> st.meta[t][i].member_id,
               member_pos |-> st.meta[t][i].member_pos,
               buffer_offset |-> st.meta[t][i].buffer_offset,
               object |-> ObjectAt(st.mbuf, st.meta[t][i].buffer_offset)] :
              i \in {j \in 1..Len(st.meta[t]) : st.meta[t][j].relation_pos = slot} } :
            t \in Kinds }

\* the hook complete_relation(relation_meta): the relation is read at its
\* offset and each member with ref != 0 is looked up with get_offset
complete_relation(st, slot) ==
    LET rm       == st.rel[slot + 1]
        relation == m_relations_buffer[rm.relation_offset + 1]
        wanted   == SelectSeq(relation.members, LAMBDA m : m.ref # 0)
    IN  [st EXCEPT !.ev = Append(@,
            [ev |-> "complete_relation",
             slot |-> slot,
             relation |-> relation.id,
             members_needed |-> rm.members_needed,
             members_found |-> rm.members_found,
             entries |-> EntriesOf(st, slot),
             members |-> [i \in 1..Len(wanted) |->
                             LET offset == get_offset(st, wanted[i].type, wanted[i].ref)
                             IN  [type |-> wanted[i].type, ref |-> wanted[i].ref,
                                  offset |-> offset,
                                  object |-> ObjectAt(st.mbuf, offset)]]])]

\* Collector::moving_in_buffer, called while obj is still at old_offset
moving_in_buffer(st, obj, old_offset, new_offset) ==
    LET mmv   == st.meta[obj.type]
        range == equal_range(mmv, obj.id)
        moved == [st EXCEPT
                    !.meta[obj.type] =
                        [i \in 1..Len(mmv) |->
                            IF i \in range
                            THEN [mmv[i] EXCEPT !.buffer_offset = new_offset]
                            ELSE mmv[i]],
                    !.ev = Append(@, [ev |-> "moving_in_buffer", object |-> obj,
                                      old_offset |-> old_offset,
                                      new_offset |-> new_offset,
                                      entries |-> [i \in range |-> mmv[i].buffer_offset]])]
    IN  debug_check(moved, \A i \in range : mmv[i].buffer_offset = old_offset)

\* an object of the members buffer that only completed relations refer to
Removable(st, obj) ==
    \A i \in equal_range(st.meta[obj.type], obj.id) :
        Tombstoned(st.rel[st.meta[obj.type][i].relation_pos + 1])

\* Buffer::purge_deleted(callback): the objects that are kept move to the
\* front, the callback is told of each object that changes its offset
RECURSIVE purge_deleted(_, _, _, _)
purge_deleted(st, old, i, new) ==
    IF st.failed THEN st
    ELSE IF i > Len(old) THEN [st EXCEPT !.mbuf = new]
    ELSE IF Removable(st, old[i]) THEN purge_deleted(st, old, i + 1, new)
    ELSE purge_deleted(
            IF i - 1 # Len(new)
            THEN moving_in_buffer(st, old[i], i - 1, Len(new))
            ELSE st,
            old, i + 1, Append(new, old[i]))

\* Collector::possibly_purge_deleted_members
possibly_purge_deleted_members(st) ==
    IF st.count + 1 > PurgeEvery
    THEN [purge_deleted(st, st.mbuf, 1, <<>>) EXCEPT !.count = 0]
    ELSE [st EXCEPT !.count = @ + 1]

\* tombstone left out: the slot keeps its RelationMeta
tombstone_skip(st, slot) ==
    st

\* m_collector.m_relations[pos] = RelationMeta()
tombstone(st, slot) ==
    [st EXCEPT !.rel[slot + 1] = RelationMeta(0)]

\* the loop of find_and_add_object over the equal range [it, last]
RECURSIVE find_and_add_loop(_, _, _, _, _)
find_and_add_loop(st, object, pos, it, last) ==
    IF st.failed \/ it > last THEN st
    ELSE LET t    == object.type
             s1   == [st EXCEPT !.meta[t][it].buffer_offset = pos]
             mm   == s1.meta[t][it]
             slot == mm.relation_pos
             ok   == /\ mm.member_id = object.id
                     /\ slot < Len(s1.rel)
                     /\ mm.member_pos <
                          Len(m_relations_buffer[s1.rel[slot + 1].relation_offset + 1].members)
             s2   == debug_check(s1, ok)
             s3   == [s2 EXCEPT !.rel[slot + 1] = got_one_member(@)]
             s4   == IF has_all_members(s3.rel[slot + 1])
                     THEN possibly_purge_deleted_members(
                              tombstone(complete_relation(s3, slot), slot))
                     ELSE s3
         IN  IF s2.failed THEN s2
             ELSE find_and_add_loop(s4, object, pos, it + 1, last)

Min(S) == CHOOSE x \in S : \A y \in S : x <= y
Max(S) == CHOOSE x \in S : \A y \in S : x >= y

\* members_buffer().add_item(object); members_buffer().commit()
add_item(st, object) ==
    [st EXCEPT !.mbuf = Append(@, object),
               !.ev = Append(@, [ev |-> "add_item", object |-> object,
                                 offset |-> Len(st.mbuf)])]

\* find_and_add_object that copies the object twice
find_and_add_object_twice(st, object) ==
    LET range == equal_range(st.meta[object.type], object.id)
    IN  IF range = {} THEN [st |-> st, added |-> FALSE]
        ELSE [st |-> find_and_add_loop(add_item(add_item(st, object), object),
                                       object, Len(st.mbuf), Min(range), Max(range)),
              added |-> TRUE]

\* HandlerPass2::find_and_add_object: the collector state afterwards, and
\* whether the object was added
find_and_add_object(st, object) ==
    LET range == equal_range(st.meta[object.type], object.id)
    IN  IF range = {} THEN [st |-> st, added |-> FALSE]
        ELSE [st |-> find_and_add_loop(add_item(st, object),
                                       object, Len(st.mbuf), Min(range), Max(range)),
              added |-> TRUE]

\* HandlerPass2::node, HandlerPass2::way, HandlerPass2::relation
Pass2Object ==
    /\ phase = "pass2"
    /\ k2 < MaxObjects
    /\ \E object \in Objects :
         LET st == [rel |-> m_relations, meta |-> m_member_meta,
                    mbuf |-> m_members_buffer, count |-> m_count_complete,
                    ev |-> events, failed |-> FALSE]
             r  == find_and_add_object(st, object)
         IN  IF ~track[object.type]
             THEN UNCHANGED <<phase, m_relations, m_member_meta, m_members_buffer,
                              m_count_complete, events>>
             ELSE IF r.st.failed
             THEN \* the process is aborted by the failed assert
                  /\ phase' = "aborted"
                  /\ UNCHANGED <<m_relations, m_member_meta, m_members_buffer,
                                 m_count_complete, events>>
             ELSE /\ m_relations' = r.st.rel
                  /\ m_member_meta' = r.st.meta
                  /\ m_members_buffer' = r.st.mbuf
                  /\ m_count_complete' = r.st.count
                  /\ events' = IF r.added THEN r.st.ev
                               ELSE Append(events, [ev |-> "not_in_any_relation",
                                                    object |-> object])
                  /\ UNCHANGED phase
    /\ k2' = k2 + 1
    /\ UNCHANGED <<ndebug, track, pass1_log, m_relations_buffer>>
    /\ UNCHANGED <<pbfVars, readerVars, blockVars, bzVars>>

\* HandlerPass2::done at the end of the source of pass 2
Pass2Done ==
    /\ phase = "pass2"
    /\ m_member_meta' = [t \in Kinds |-> <<>>]
    /\ events' = Append(events, [ev |-> "done"])
    /\ phase' = "done"
    /\ UNCHANGED <<ndebug, track, pass1_log, k2, m_relations_buffer, m_members_buffer,
                   m_relations, m_count_complete>>
    /\ UNCHANGED <<pbfVars, readerVars, blockVars, bzVars>>

NextCollector ==
    \/ Pass1Relation
    \/ EndPass1
    \/ Pass2Object
    \/ Pass2Done

SpecCollector == InitCollector /\ [][NextCollector]_vars

\* the collector with every call of pass 1 logged
NextPass1 ==
    \/ Pass1RelationLogged
    \/ EndPass1
    \/ Pass2Object
    \/ Pass2Done

SpecPass1 == InitCollector /\ [][NextPass1]_vars

(***************************************************************************)
(* PBFPrimitiveBlockParser: one primitive block decoded into the nodes of  *)
(* its groups.  Arrays are sequences, the C++ index i is i + 1 here.       *)
(***************************************************************************)
\* nodes in a group of the input
MaxNodes == 3

lonlat_resolution == 1000000000
coordinate_precision == 10000000
default_granularity == 100
default_date_granularity == 1000

\* m_stringtable->s(i)
StringTable == <<"", "highway", "primary", "name", "Elm Street">>
stringtable_s(i) == StringTable[i + 1]

\* integer division of C++, which truncates toward zero
cdiv(a, b) == IF a >= 0 THEN a \div b ELSE -((-a) \div b)

\* a PrimitiveGroup: a DenseNodes message (ids, coordinates and DenseInfo as
\* deltas) or plain nodes (absolute values, all with or all without Info),
\* and its repeated fields ways and relations
Group(kind, id, lat, lon, has_info, timestamp, version, keys_vals) ==
    [kind |-> kind, id |-> id, lat |-> lat, lon |-> lon, has_info |-> has_info,
     version |-> version, timestamp |-> timestamp,
     changeset |-> [i \in 1..Len(id) |-> 1],
     uid |-> [i \in 1..Len(id) |-> IF i = 1 THEN 7 ELSE 0],
     user_sid |-> [i \in 1..Len(id) |-> IF i = 1 THEN 4 ELSE 0],
     visible |-> <<>>,
     keys_vals |-> keys_vals,
     ways |-> <<>>, relations |-> <<>>]

PrimitiveBlock(date_granularity, group) ==
    [date_granularity |-> date_granularity, granularity |-> default_granularity,
     lat_offset |-> 0, lon_offset |-> 0, primitivegroup |-> <<group>>]

IdDeltas == {10, 5, -3}
TimestampDeltas == {0, 2, -1}
DateGranularities == {1, 999, default_date_granularity, 1500, 2000}

Lats(k) == [i \in 1..k |-> IF i % 2 = 1 THEN 4 ELSE -1]
Lons(k) == [i \in 1..k |-> 2 * i - 5]
Ids(k) == [i \in 1..k |-> IF i = 1 THEN 10 ELSE 5]
Timestamps(k) == [i \in 1..k |-> 2]
Versions(k) == [i \in 1..k |-> 1]

\* keys_vals streams: whole (key, value) pairs, each node's pairs followed by
\* a 0, the last 0 and the segments of the last nodes possibly missing
KeysVals ==
    { <<>>, <<0>>, <<1, 2, 0>>, <<1, 2, 0, 3, 4, 0>>, <<0, 3, 4, 0>>,
      <<1, 2, 3, 4, 0, 0>>, <<1, 2, 0, 0, 3, 4, 0>>, <<1, 2>>,
      <<0, 0, 1, 2, 3, 4>> }

Groups ==
    UNION {
        {Group("dense", id, Lats(k), Lons(k), TRUE, Timestamps(k), Versions(k), <<>>) :
            id \in [1..k -> IdDeltas]}
        \cup
        {Group("dense", Ids(k), Lats(k), Lons(k), info, ts, Versions(k), <<>>) :
            info \in BOOLEAN, ts \in [1..k -> TimestampDeltas]}
        \cup
        {Group("dense", Ids(k), Lats(k), Lons(k), TRUE, Timestamps(k), v, <<>>) :
            v \in [1..k -> {0, 1}]}
        \cup
        {Group("dense", Ids(k), Lats(k), Lons(k), info, Timestamps(k), Versions(k), kv) :
            info \in BOOLEAN, kv \in KeysVals}
        \cup
        {Group("nodes", id, Lats(k), Lons(k), info, ts, Versions(k), <<>>) :
            id \in {Ids(k)}, info \in BOOLEAN, ts \in [1..k -> {0, 3}]}
        \cup
        {Group("none", <<>>, <<>>, <<>>, FALSE, <<>>, <<>>, <<>>)}
      : k \in 0..MaxNodes }

PrimitiveBlocks == {PrimitiveBlock(dg, g) : dg \in DateGranularities, g \in Groups}

\* the parser after operator() has read the fields of the block
Parser(pb) ==
    [m_lon_offset  |-> pb.lon_offset,
     m_lat_offset  |-> pb.lat_offset,
     m_date_factor |-> pb.date_granularity \div 1000,
     m_granularity |-> pb.granularity]

\* osmium::Location from the two expressions handed to its constructor
Location(parser, lon, lat) ==
    [lon |-> cdiv(lon * parser.m_granularity + parser.m_lon_offset,
                  lonlat_resolution \div coordinate_precision),
     lat |-> cdiv(lat * parser.m_granularity + parser.m_lat_offset,
                  lonlat_resolution \div coordinate_precision)]

NoLocation == [lon |-> 2147483647, lat |-> 2147483647]

\* a node in the buffer; timestamp is what set_timestamp was given and
\* has_info says whether the attributes were set from an Info
Node(id, has_info, version, changeset, timestamp, uid, visible, user, location, tags) ==
    [type |-> "node",
     id |-> id, has_info |-> has_info, version |-> version, changeset |-> changeset,
     timestamp |-> timestamp, uid |-> uid, visible |-> visible, user |-> user,
     location |-> location, tags |-> tags]

\* the loop of add_tags from cursor pos on: the tags added and the cursor
RECURSIVE add_tags_loop(_, _, _)
add_tags_loop(keys_vals, pos, tags) ==
    IF pos >= Len(keys_vals) THEN [n |-> pos, tags |-> tags]
    ELSE IF keys_vals[pos + 1] = 0 THEN [n |-> pos + 1, tags |-> tags]
    ELSE add_tags_loop(keys_vals, pos + 2,
                       Append(tags, <<stringtable_s(keys_vals[pos + 1]), stringtable_s(keys_vals[pos + 2])>>))

\* add_tags that leaves the cursor on the terminator of a node without tags
add_tags_stuck(keys_vals, pos) ==
    IF pos >= Len(keys_vals) THEN [n |-> pos, tags |-> <<>>]
    ELSE IF keys_vals[pos + 1] = 0 THEN [n |-> pos, tags |-> <<>>]
    ELSE add_tags_loop(keys_vals, pos, <<>>)

\* PBFPrimitiveBlockParser::add_tags(dense, n, builder), n being pos: the
\* value returned and the tags added to the node
add_tags(keys_vals, pos) ==
    IF pos >= Len(keys_vals) THEN [n |-> pos, tags |-> <<>>]
    ELSE IF keys_vals[pos + 1] = 0 THEN [n |-> pos + 1, tags |-> <<>>]
    ELSE add_tags_loop(keys_vals, pos, <<>>)

\* the accumulators of parse_dense_node_group
DenseStart ==
    [last_dense_id |-> 0, last_dense_latitude |-> 0, last_dense_longitude |-> 0,
     last_dense_uid |-> 0, last_dense_user_sid |-> 0, last_dense_changeset |-> 0,
     last_dense_timestamp |-> 0, last_dense_tag |-> 0]

\* the result of a parse: the nodes committed to the buffer, for each the
\* value of last_dense_tag after it, and "abort" when an assert failed
Parsed(state, what, nodes, cursors) ==
    [state |-> state, what |-> what, nodes |-> nodes, cursors |-> cursors]

\* iteration i that takes id, lat and lon from the arrays as they are
Advance_absolute(dense, i, last) ==
    LET coords == [last EXCEPT !.last_dense_id = dense.id[i],
                               !.last_dense_latitude = dense.lat[i],
                               !.last_dense_longitude = dense.lon[i]]
    IN  IF dense.has_info
        THEN [coords EXCEPT !.last_dense_changeset = @ + dense.changeset[i],
                            !.last_dense_timestamp = @ + dense.timestamp[i],
                            !.last_dense_uid = @ + dense.uid[i],
                            !.last_dense_user_sid = @ + dense.user_sid[i]]
        ELSE coords

\* the accumulators after the additions of iteration i
Advance(dense, i, last) ==
    LET coords == [last EXCEPT !.last_dense_id = @ + dense.id[i],
                               !.last_dense_latitude = @ + dense.lat[i],
                               !.last_dense_longitude = @ + dense.lon[i]]
    IN  IF dense.has_info
        THEN [coords EXCEPT !.last_dense_changeset = @ + dense.changeset[i],
                            !.last_dense_timestamp = @ + dense.timestamp[i],
                            !.last_dense_uid = @ + dense.uid[i],
                            !.last_dense_user_sid = @ + dense.user_sid[i]]
        ELSE coords

\* the asserts of iteration i hold
DenseAsserts(dense, i, last) ==
    dense.has_info =>
        /\ last.last_dense_changeset >= 0
        /\ last.last_dense_timestamp >= 0
        /\ last.last_dense_uid >= -1
        /\ last.last_dense_user_sid >= 0
        /\ dense.version[i] > 0

\* the for loop of parse_dense_node_group from iteration i on
RECURSIVE dense_loop(_, _, _, _, _, _)
dense_loop(parser, dense, i, last, out, nd) ==
    IF i > Len(dense.id) THEN out
    ELSE
        LET acc     == Advance(dense, i, last)
            visible == IF dense.has_info /\ Len(dense.visible) > 0
                       THEN dense.visible[i] ELSE TRUE
            t       == add_tags(dense.keys_vals, acc.last_dense_tag)
            node    == Node(acc.last_dense_id,
                            dense.has_info,
                            IF dense.has_info THEN dense.version[i] ELSE 0,
                            IF dense.has_info THEN acc.last_dense_changeset ELSE 0,
                            IF dense.has_info
                            THEN acc.last_dense_timestamp * parser.m_date_factor ELSE 0,
                            IF dense.has_info THEN acc.last_dense_uid ELSE 0,
                            visible,
                            IF dense.has_info THEN stringtable_s(acc.last_dense_user_sid) ELSE "",
                            IF visible
                            THEN Location(parser, acc.last_dense_longitude,
                                          acc.last_dense_latitude)
                            ELSE NoLocation,
                            t.tags)
        IN  IF ~nd /\ ~DenseAsserts(dense, i, acc)
            THEN Parsed("abort", "assert", out.nodes, out.cursors)
            ELSE dense_loop(parser, dense, i + 1,
                            [acc EXCEPT !.last_dense_tag = t.n],
                            Parsed("value", "", Append(out.nodes, node),
                                   Append(out.cursors, t.n)),
                            nd)

\* PBFPrimitiveBlockParser::parse_dense_node_group
parse_dense_node_group(parser, group, out, nd) ==
    dense_loop(parser, group, 1, DenseStart, out, nd)

\* parse_attributes and parse_node_group for the i-th node of the group
plain_node(parser, group, i) ==
    Node(group.id[i],
         group.has_info,
         IF group.has_info THEN group.version[i] ELSE 0,
         IF group.has_info THEN group.changeset[i] ELSE 0,
         IF group.has_info THEN group.timestamp[i] * parser.m_date_factor ELSE 0,
         IF group.has_info THEN group.uid[i] ELSE 0,
         TRUE,
         IF group.has_info THEN stringtable_s(group.user_sid[i]) ELSE "",
         Location(parser, group.lon[i], group.lat[i]),
         <<>>)

\* PBFPrimitiveBlockParser::parse_node_group
parse_node_group(parser, group, out) ==
    Parsed("value", "",
           out.nodes \o [i \in 1..Len(group.id) |-> plain_node(parser, group, i)],
           out.cursors \o [i \in 1..Len(group.id) |-> 0])

\* running sums of the deltas: ref += refs(n) for each n
RECURSIVE delta_decode(_, _, _)
delta_decode(deltas, i, ref) ==
    IF i > Len(deltas) THEN <<>>
    ELSE <<ref + deltas[i]>> \o delta_decode(deltas, i + 1, ref + deltas[i])

\* the TagListBuilder loop over keys and vals of a node, way or relation
tag_list(keys, vals) ==
    [t \in 1..Len(keys) |-> <<stringtable_s(keys[t]), stringtable_s(vals[t])>>]

\* parse_attributes and the body of the loop of parse_way_group for one way
Way(parser, pbf_way) ==
    [type |-> "way",
     id |-> pbf_way.id, has_info |-> pbf_way.has_info,
     version |-> IF pbf_way.has_info THEN pbf_way.version ELSE 0,
     changeset |-> IF pbf_way.has_info THEN pbf_way.changeset ELSE 0,
     timestamp |-> IF pbf_way.has_info
                   THEN pbf_way.timestamp * parser.m_date_factor ELSE 0,
     uid |-> IF pbf_way.has_info THEN pbf_way.uid ELSE 0,
     user |-> IF pbf_way.has_info THEN stringtable_s(pbf_way.user_sid) ELSE "",
     nodes |-> delta_decode(pbf_way.refs, 1, 0),
     tags |-> tag_list(pbf_way.keys, pbf_way.vals)]

\* PBFPrimitiveBlockParser::parse_way_group
parse_way_group(parser, group, out) ==
    Parsed("value", "",
           out.nodes \o [i \in 1..Len(group.ways) |-> Way(parser, group.ways[i])],
           out.cursors \o [i \in 1..Len(group.ways) |-> 0])

\* parse_attributes and the body of the loop of parse_relation_group for one
\* relation; a member is its ref and its role
Relation(parser, pbf_relation) ==
    [type |-> "relation",
     id |-> pbf_relation.id, has_info |-> pbf_relation.has_info,
     version |-> IF pbf_relation.has_info THEN pbf_relation.version ELSE 0,
     changeset |-> IF pbf_relation.has_info THEN pbf_relation.changeset ELSE 0,
     timestamp |-> IF pbf_relation.has_info
                   THEN pbf_relation.timestamp * parser.m_date_factor ELSE 0,
     uid |-> IF pbf_relation.has_info THEN pbf_relation.uid ELSE 0,
     user |-> IF pbf_relation.has_info THEN stringtable_s(pbf_relation.user_sid) ELSE "",
     members |-> [m \in 1..Len(pbf_relation.memids) |->
                    [ref  |-> delta_decode(pbf_relation.memids, 1, 0)[m],
                     role |-> stringtable_s(pbf_relation.roles_sid[m])]],
     tags |-> tag_list(pbf_relation.keys, pbf_relation.vals)]

\* PBFPrimitiveBlockParser::parse_relation_group
parse_relation_group(parser, group, out) ==
    Parsed("value", "",
           out.nodes \o [i \in 1..Len(group.relations) |->
                            Relation(parser, group.relations[i])],
           out.cursors \o [i \in 1..Len(group.relations) |-> 0])

\* the loop of operator() over the groups from group g on
RECURSIVE group_loop(_, _, _, _, _, _)
group_loop(parser, pb, g, out, types, nd) ==
    IF g > Len(pb.primitivegroup) \/ out.state # "value" THEN out
    ELSE
        LET group == pb.primitivegroup[g]
            next  == IF group.kind = "dense"
                     THEN IF "node" \in types
                          THEN parse_dense_node_group(parser, group, out, nd) ELSE out
                     ELSE IF Len(group.ways) # 0
                     THEN IF "way" \in types
                          THEN parse_way_group(parser, group, out) ELSE out
                     ELSE IF Len(group.relations) # 0
                     THEN IF "relation" \in types
                          THEN parse_relation_group(parser, group, out) ELSE out
                     ELSE IF group.kind = "nodes" /\ Len(group.id) # 0
                     THEN IF "node" \in types
                          THEN parse_node_group(parser, group, out) ELSE out
                     ELSE Parsed("exception", "group of unknown type", out.nodes, out.cursors)
        IN  group_loop(parser, pb, g + 1, next, types, nd)

\* PBFPrimitiveBlockParser::operator()
PBFPrimitiveBlockParser(pb, types, nd) ==
    group_loop(Parser(pb), pb, 1, Parsed("value", "", <<>>, <<>>), types, nd)

InitBlock ==
    /\ ndebug \in BOOLEAN
    /\ track = [t \in Kinds |-> TRUE]
    /\ phase = "idle"
    /\ CollectorEmpty
    /\ file = <<>>
    /\ read_types = "all"
    /\ cursor = 1
    /\ p_pc = "not_started"
    /\ p_frame = NoFrame
    /\ n = 0
    /\ m_done = FALSE
    /\ m_queue = <<>>
    /\ work_queue = <<>>
    /\ running = [w \in Workers |-> -1]
    /\ tasks = <<>>
    /\ c_pc = "ctor"
    /\ c_fut = -1
    /\ delivered = <<>>
    /\ m_header = NoFlags
    /\ thrown = NoThrow
    /\ ReaderLocal
    /\ Bzip2Idle
    /\ pbf_primitive_block \in PrimitiveBlocks
    /\ m_read_types = Kinds
    /\ m_buffer = NotParsed

\* handle_blob that asks the parser for every kind
ParseBlock_all_kinds ==
    /\ m_buffer = NotParsed
    /\ m_buffer' = PBFPrimitiveBlockParser(pbf_primitive_block, Kinds, ndebug)
    /\ UNCHANGED <<pbf_primitive_block, m_read_types>>
    /\ UNCHANGED <<pbfVars, collVars, readerVars, bzVars>>

\* DataBlobParser::handle_blob: the block is parsed and its buffer returned
ParseBlock ==
    /\ m_buffer = NotParsed
    /\ m_buffer' = PBFPrimitiveBlockParser(pbf_primitive_block, m_read_types, ndebug)
    /\ UNCHANGED <<pbf_primitive_block, m_read_types>>
    /\ UNCHANGED <<pbfVars, collVars, readerVars, bzVars>>

NextBlock == ParseBlock

SpecBlock == InitBlock /\ [][NextBlock]_vars

\* groups in a block of the dispatch inputs
MaxGroups == 2

\* an OSMPBF::Way: refs are deltas, keys and vals index the string table
PbfWay(id, has_info, refs, keys, vals) ==
    [id |-> id, has_info |-> has_info, version |-> 2, changeset |-> 1,
     timestamp |-> 3, uid |-> 7, user_sid |-> 4,
     refs |-> refs, keys |-> keys, vals |-> vals]

\* an OSMPBF::Relation: memids are deltas, roles_sid index the string table
PbfRelation(id, has_info, memids, roles_sid, keys, vals) ==
    [id |-> id, has_info |-> has_info, version |-> 1, changeset |-> 1,
     timestamp |-> 5, uid |-> 7, user_sid |-> 4,
     memids |-> memids, roles_sid |-> roles_sid, keys |-> keys, vals |-> vals]

TheWays ==
    << PbfWay(100, FALSE, <<10, 5, -3>>, <<1>>, <<2>>),
       PbfWay(101, TRUE, <<>>, <<>>, <<>>) >>

TheRelations ==
    << PbfRelation(200, TRUE, <<10, 90>>, <<0, 3>>, <<3>>, <<4>>) >>

DenseGroup ==
    Group("dense", Ids(2), Lats(2), Lons(2), TRUE, Timestamps(2), Versions(2), <<1, 2, 0>>)
NodeGroup ==
    Group("nodes", <<30>>, Lats(1), Lons(1), FALSE, <<0>>, Versions(1), <<>>)
EmptyGroup ==
    Group("none", <<>>, <<>>, <<>>, FALSE, <<>>, <<>>, <<>>)
WayGroup == [EmptyGroup EXCEPT !.ways = TheWays]
RelationGroup == [EmptyGroup EXCEPT !.relations = TheRelations]

\* groups of one kind, the group without entities, and groups that populate
\* two or three of the fields
DispatchGroups ==
    { DenseGroup, NodeGroup, WayGroup, RelationGroup, EmptyGroup,
      [DenseGroup EXCEPT !.ways = TheWays],
      [DenseGroup EXCEPT !.relations = TheRelations],
      [NodeGroup EXCEPT !.ways = TheWays],
      [NodeGroup EXCEPT !.relations = TheRelations],
      [WayGroup EXCEPT !.relations = TheRelations],
      [NodeGroup EXCEPT !.ways = TheWays, !.relations = TheRelations] }

DispatchBlocks ==
    { [PrimitiveBlock(default_date_granularity, EmptyGroup) EXCEPT !.primitivegroup = gs] :
        gs \in SeqsUpTo(DispatchGroups, MaxGroups) }

InitDispatch ==
    /\ ndebug \in BOOLEAN
    /\ track = [t \in Kinds |-> TRUE]
    /\ phase = "idle"
    /\ CollectorEmpty
    /\ file = <<>>
    /\ read_types = "all"
    /\ cursor = 1
    /\ p_pc = "not_started"
    /\ p_frame = NoFrame
    /\ n = 0
    /\ m_done = FALSE
    /\ m_queue = <<>>
    /\ work_queue = <<>>
    /\ running = [w \in Workers |-> -1]
    /\ tasks = <<>>
    /\ c_pc = "ctor"
    /\ c_fut = -1
    /\ delivered = <<>>
    /\ m_header = NoFlags
    /\ thrown = NoThrow
    /\ ReaderLocal
    /\ Bzip2Idle
    /\ pbf_primitive_block \in DispatchBlocks
    /\ m_read_types \in SUBSET Kinds
    /\ m_buffer = NotParsed

SpecDispatch == InitDispatch /\ [][NextBlock]_vars

(***************************************************************************)
(* Bzip2Decompressor, as test_bzip2.cpp uses it: constructed on a file     *)
(* descriptor of the caller, read until it gives an empty string or        *)
(* throws, then closed or destroyed; count_fds() is Cardinality(open_fds). *)
(***************************************************************************)
\* chunks of data in a compressed file, and calls of read() on a decompressor
MaxChunks == 2
MaxReads == 3

\* the descriptors of the process before the caller opens the file
StdFds == {0, 1, 2}

\* the caller's descriptors: invalid, not open, or open on the file
InvalidFd == -1
NonOpenFd == 12345
FileFds == {3, 4}

\* contents of the file: compressed data in chunks, nothing, or data that is
\* corrupt after some chunks
Bzip2Inputs ==
    {[kind |-> "valid", chunks |-> c] : c \in 1..MaxChunks}
    \cup {[kind |-> "empty", chunks |-> 0]}
    \cup {[kind |-> "corrupt", chunks |-> c] : c \in 0..(MaxChunks - 1)}

\* dup(fd): the lowest descriptor that is not open
dup(fds) == CHOOSE d \in 0..(Cardinality(fds) + 1) :
                d \notin fds /\ \A e \in 0..(d - 1) : e \in fds

InitBzip2 ==
    /\ ndebug = TRUE
    /\ track = [t \in Kinds |-> TRUE]
    /\ phase = "idle"
    /\ CollectorEmpty
    /\ file = <<>>
    /\ read_types = "all"
    /\ cursor = 1
    /\ p_pc = "not_started"
    /\ p_frame = NoFrame
    /\ n = 0
    /\ m_done = FALSE
    /\ m_queue = <<>>
    /\ work_queue = <<>>
    /\ running = [w \in Workers |-> -1]
    /\ tasks = <<>>
    /\ c_pc = "ctor"
    /\ c_fut = -1
    /\ delivered = <<>>
    /\ m_header = NoFlags
    /\ thrown = NoThrow
    /\ ReaderLocal
    /\ BlockParserIdle
    /\ bz_input \in Bzip2Inputs
    /\ \E fd \in FileFds :
          /\ open_fds = StdFds \cup {f \in FileFds : f <= fd}
          /\ bz_fd \in {InvalidFd, NonOpenFd, fd}
    /\ count2 = Cardinality(open_fds)
    /\ decomp = NoDecompressor
    /\ bz_calls = <<>>

\* Bzip2Decompressor::Bzip2Decompressor(fd): the decompressor reads from a
\* duplicate of fd; on a descriptor that is not open it throws
Bzip2Construct ==
    /\ decomp.state = "none"
    /\ IF bz_fd \in open_fds
       THEN /\ decomp' = [state |-> "open", m_file |-> dup(open_fds), chunks |-> 0]
            /\ open_fds' = open_fds \cup {dup(open_fds)}
            /\ bz_calls' = Append(bz_calls, "constructed")
       ELSE /\ decomp' = [decomp EXCEPT !.state = "ctor_failed"]
            /\ bz_calls' = Append(bz_calls, "std::system_error")
            /\ UNCHANGED open_fds
    /\ UNCHANGED <<bz_input, bz_fd, count2>>
    /\ UNCHANGED <<pbfVars, collVars, readerVars, blockVars>>

\* calls of read() so far
Reads == Cardinality({i \in 1..Len(bz_calls) :
                         bz_calls[i] \in {"data", "end", "bzip2_error"}})

\* Bzip2Decompressor::read: the next chunk, the empty string at the end of
\* the data, or bzip2_error on an empty file and on corrupt data
Bzip2Read ==
    /\ decomp.state = "open"
    /\ Reads < MaxReads
    /\ IF decomp.chunks < bz_input.chunks
       THEN /\ decomp' = [decomp EXCEPT !.chunks = @ + 1]
            /\ bz_calls' = Append(bz_calls, "data")
       ELSE /\ bz_calls' = Append(bz_calls, IF bz_input.kind = "valid"
                                            THEN "end" ELSE "bzip2_error")
            /\ UNCHANGED decomp
    /\ UNCHANGED <<open_fds, bz_input, bz_fd, count2>>
    /\ UNCHANGED <<pbfVars, collVars, readerVars, blockVars>>

\* close() that forgets the descriptor without closing it
release_leak(fds) == fds

\* close() of an open decompressor: the descriptor it holds is closed
release(fds) == fds \ {decomp.m_file}

\* Bzip2Decompressor::close
Bzip2Close ==
    /\ decomp.state = "open"
    /\ open_fds' = release(open_fds)
    /\ decomp' = [decomp EXCEPT !.state = "closed", !.m_file = -1]
    /\ bz_calls' = Append(bz_calls, "close")
    /\ UNCHANGED <<bz_input, bz_fd, count2>>
    /\ UNCHANGED <<pbfVars, collVars, readerVars, blockVars>>

\* Bzip2Decompressor::~Bzip2Decompressor: closes what close() was not called for
Bzip2Destroy ==
    /\ decomp.state \in {"open", "closed"}
    /\ open_fds' = IF decomp.state = "open" THEN release(open_fds) ELSE open_fds
    /\ decomp' = [decomp EXCEPT !.state = "destroyed", !.m_file = -1]
    /\ bz_calls' = Append(bz_calls, "destroy")
    /\ UNCHANGED <<bz_input, bz_fd, count2>>
    /\ UNCHANGED <<pbfVars, collVars, readerVars, blockVars>>

\* the caller's close(fd)
CallerClose ==
    /\ decomp.state \in {"closed", "destroyed"}
    /\ bz_fd \in open_fds
    /\ open_fds' = open_fds \ {bz_fd}
    /\ bz_calls' = Append(bz_calls, "close(fd)")
    /\ UNCHANGED <<bz_input, bz_fd, count2, decomp>>
    /\ UNCHANGED <<pbfVars, collVars, readerVars, blockVars>>

NextBzip2 ==
    \/ Bzip2Construct
    \/ Bzip2Read
    \/ Bzip2Close
    \/ Bzip2Destroy
    \/ CallerClose

SpecBzip2 == InitBzip2 /\ [][NextBzip2]_vars

(***************************************************************************)
(* Properties of the relation collector                                    *)
(***************************************************************************)
IsComplete(e) == e.ev = "complete_relation"

\* C3: complete_relation fires at most once for a slot, only when the slot's
\* members_found equals its members_needed, and the slot is a tombstone from
\* then on.
C3_CompleteOnce ==
    \A i \in 1..Len(events) :
        IsComplete(events[i]) =>
            /\ events[i].slot < Len(m_relations)
            /\ events[i].members_found = events[i].members_needed
            /\ events[i].members_needed > 0
            /\ Tombstoned(m_relations[events[i].slot + 1])
            /\ \A j \in 1..Len(events) :
                  (j # i /\ IsComplete(events[j])) => events[j].slot # events[i].slot

\* a relation was completed and a member of it arrived again afterwards
C3_Witness ==
    /\ phase = "pass2"
    /\ \E i \in 1..Len(events) :
          /\ IsComplete(events[i])
          /\ m_relations[events[i].slot + 1].members_found > 0

\* C4: when complete_relation is called for a slot, every index entry of the
\* slot has its buffer offset set and the members buffer holds, at that
\* offset, the copy of the object of the entry's kind and id.
C4_MembersResolved ==
    \A i \in 1..Len(events) :
        IsComplete(events[i]) =>
            \A x \in events[i].entries :
                /\ x.buffer_offset # NoOffset
                /\ x.object = Object(x.type, x.member_id)

\* C5: no index entry keeps or receives an offset its object was moved away
\* from: an entry of a relation that is not yet complete, once it has an
\* offset, designates a copy of its object.
C5_NoStaleOffset ==
    (phase = "pass2") =>
        \A t \in Kinds : \A i \in 1..Len(m_member_meta[t]) :
            LET mm == m_member_meta[t][i]
            IN  (/\ ~Tombstoned(m_relations[mm.relation_pos + 1])
                 /\ mm.buffer_offset # NoOffset)
                => ObjectAt(m_members_buffer, mm.buffer_offset) = Object(t, mm.member_id)

(***************************************************************************)
(* Properties of the PBF pipeline                                          *)
(***************************************************************************)
\* the result of decoding the blob of the k-th data frame of the file
DecodeOf(k) == BlobParserCall("data", file[k + 1], file[k + 1].datasize, ndebug).state

NonEos(i) == delivered[i].kind # "eos"

\* C1: the k-th call of read() returns the result of the k-th OSMData blob of
\* the file, whatever the order in which the workers finish; the sequence
\* numbers of the delivered buffers are strictly increasing.
C1_OrderedDelivery ==
    /\ \A i \in 1..Len(delivered) :
          NonEos(i) => /\ delivered[i].blob = i - 1
                       /\ i <= Len(tasks)
                       /\ tasks[i].frame = file[i + 1]
    /\ \A i, j \in 1..Len(delivered) :
          (i < j /\ NonEos(i) /\ NonEos(j)) => delivered[i].blob < delivered[j].blob

\* blob 0 was delivered and read() waits for blob 1 while blob 2 is decoded
C1_Witness ==
    /\ delivered = <<Buf(0)>>
    /\ c_pc = "get"
    /\ c_fut = 1
    /\ Len(tasks) = 3
    /\ tasks[2].state = "pending"
    /\ tasks[3].state = "value"

\* C2: once the reader thread has ended at EOF and the FIFO is empty, read()
\* does not block: it is never waiting in wait_and_pop on the empty FIFO
\* that nobody will fill.
C2_EndOfStreamReported ==
    ~(c_pc = "pop" /\ m_queue = <<>> /\ p_pc = "exited")

\* C6: the read() that takes the future of blob k raises exactly when the
\* decoding of blob k fails, and returns its buffer otherwise.
C6_ErrorAtItsPosition ==
    \A i \in 1..Len(delivered) :
        NonEos(i) =>
            delivered[i] = IF DecodeOf(i) = "exception" THEN Err(i - 1) ELSE Buf(i - 1)

\* blob 0 was returned and the read() of blob 1 raised its decode error
C6_Witness ==
    /\ Len(delivered) >= 2
    /\ delivered[1] = Buf(0)
    /\ delivered[2] = Err(1)

\* C7: after read() has raised a decode error, no later read() delivers the
\* buffer of a subsequent blob.
C7_ErrorAbortsPipeline ==
    \A i, j \in 1..Len(delivered) :
        (i < j /\ delivered[i].kind = "error") => delivered[j].kind # "buffer"

\* C8: an error found by the reader thread while framing is caught by it; the
\* thread never ends with an uncaught exception.
C8_ProducerErrorCaught ==
    p_pc # "terminate"

\* C9: after the destructor has returned, done is set, the reader thread has
\* ended and the FIFO holds no future.
C9_DestructorTearsDown ==
    (c_pc = "destroyed") =>
        /\ m_done
        /\ p_pc \in {"not_started", "exited"}
        /\ m_queue = <<>>

\* the input was destroyed while futures were still undelivered
C9_Witness ==
    /\ c_pc = "destroyed"
    /\ p_pc = "exited"
    /\ Len(tasks) > Len(SelectSeq(delivered, LAMBDA d : d.kind # "eos"))

\* C10: once done is set while the reader thread runs, the thread ends by
\* returning from parse_osm_data, and from a check of done that sees it set
\* it goes on to no further frame.
C10_CancellationEffective ==
    /\ (m_done /\ p_pc # "not_started") ~> (p_pc = "exited")
    /\ [][(m_done /\ p_pc \in {"wait_work", "wait_buffer", "check_done"})
            => (p_pc' \in {"wait_work", "wait_buffer", "check_done", "exited"})]_vars


\* C11: while done is not set the output FIFO never holds more than
\* m_max_buffer_queue_size futures, because the reader thread waits before it
\* reads and enqueues the next blob.
C11_FifoBounded ==
    (~m_done) => (Len(m_queue) <= MaxBufferQueue)

\* C12: the reader thread never submits a task while m_max_work_queue_size or
\* more tasks are pending in the pool, and while done is not set it stays in
\* its wait loop as long as that many tasks are pending.
C12_WorkQueueBounded ==
    /\ (p_pc = "submit") => (Len(work_queue) < MaxWorkQueue)
    /\ Len(work_queue) <= MaxWorkQueue
    /\ (p_pc = "wait_buffer" /\ ~m_done) => (Len(work_queue) < MaxWorkQueue)

C12_Witness ==
    /\ p_pc = "wait_work"
    /\ ~m_done
    /\ n >= 1
    /\ Len(work_queue) >= MaxWorkQueue


(***************************************************************************)
(* Properties of framing and decoding                                      *)
(***************************************************************************)
\* the BlobHeader of f could be read and parsed and its type is not the
\* expected one
Mistyped(f, expected_type) ==
    /\ f.parts >= 2
    /\ f.hsize <= max_blob_header_size
    /\ f.hparse
    /\ f.type # expected_type

\* C13: the first frame must be of type OSMHeader and every later frame of
\* type OSMData: a frame of another type makes read_blob_header throw, the
\* reader never goes past it and its payload is never given to a decoder.
C13_FrameTypesEnforced ==
    /\ \A i \in 1..(cursor - 1) :
          file[i].type = (IF i = 1 THEN "OSMHeader" ELSE "OSMData")
    /\ \A k \in 1..Len(tasks) : tasks[k].frame.type = "OSMData"
    /\ (c_pc # "ctor" /\ Mistyped(FrameAt(1), "OSMHeader")) =>
          /\ c_pc = "ctor_failed"
          /\ thrown = [by |-> "ctor", what |-> "blob does not have expected type",
                       reads |-> 2]
    /\ (p_pc \in {"terminate", "set_done"} /\ Mistyped(FrameAt(cursor), "OSMData")) =>
          /\ p_pc = "terminate"
          /\ thrown = [by |-> "reader", what |-> "blob does not have expected type",
                       reads |-> 2]

C13_Witness ==
    /\ p_pc = "terminate"
    /\ cursor = 2
    /\ FrameAt(cursor).type = "OSMHeader"
    /\ thrown.what = "blob does not have expected type"
    /\ tasks = <<>>


\* C14: the reader takes the input as cleanly ended only when the end of
\* the file comes at a frame boundary; an end of file inside the length
\* prefix, the BlobHeader or the payload is an error, never a clean end.
C14_CleanEofOnlyAtBoundary ==
    /\ (p_pc = "set_done") => (cursor = Len(file) + 1)
    /\ (p_pc \in {"terminate", "set_done"} /\ cursor <= Len(file)
          /\ FrameAt(cursor).parts < 3) => (p_pc = "terminate")


\* the messages of the errors that report an input that ends too early
TruncatedErrors == {"read error", "truncated data (EOF encountered)"}

\* C15: constructing the input on an empty file fails with an error that
\* reports truncated input, and no reader thread is started.
C15_EmptyInputTruncated ==
    (file = <<>> /\ c_pc # "ctor") =>
        /\ c_pc = "ctor_failed"
        /\ p_pc = "not_started"
        /\ thrown.by = "ctor"
        /\ thrown.what \in TruncatedErrors


\* the exception of read_blob_header for a length prefix that is too large;
\* only the length prefix has been read when it is thrown
HeaderTooLarge(by) ==
    [by |-> by, what |-> "invalid BlobHeader size (> max_blob_header_size)",
     reads |-> 1]

\* C16: a frame whose length prefix says more than max_blob_header_size is
\* refused with an error after the read of the prefix and before any read of
\* BlobHeader bytes; a prefix of exactly max_blob_header_size is not refused.
C16_HeaderSizeLimit ==
    /\ (c_pc # "ctor" /\ FrameAt(1).parts >= 1
          /\ FrameAt(1).hsize > max_blob_header_size) =>
          (c_pc = "ctor_failed" /\ thrown = HeaderTooLarge("ctor"))
    /\ (p_pc \in {"terminate", "set_done"} /\ FrameAt(cursor).parts >= 1
          /\ FrameAt(cursor).hsize > max_blob_header_size) =>
          (p_pc = "terminate" /\ thrown = HeaderTooLarge("reader"))
    /\ (thrown.what = HeaderTooLarge("reader").what) =>
          FrameAt(cursor).hsize > max_blob_header_size
    /\ (p_pc \notin {"not_started", "read_header"} /\ cursor = 2
          /\ FrameAt(2) = DataMaxHeader) => thrown.by \in {"none", "assert"}

C16_Witness ==
    /\ p_pc = "terminate"
    /\ FrameAt(cursor).hsize = max_blob_header_size + 1
    /\ thrown = HeaderTooLarge("reader")


\* C17: a zlib blob whose raw_size is outside 0..max_uncompressed_blob_size is
\* refused with an error and its bytes never reach the block decoder; a frame
\* whose datasize is outside that range never becomes a task.
C17_SizeLimits ==
    /\ \A k \in 1..Len(tasks) :
          LET f == tasks[k].frame
          IN  /\ f.datasize >= 0 /\ f.datasize <= max_uncompressed_blob_size
              /\ (f.blob = "zlib" /\ (f.raw_size < 0
                                       \/ f.raw_size > max_uncompressed_blob_size)) =>
                    /\ tasks[k].state \in {"pending", "exception"}
                    /\ tasks[k].data = NoData
    /\ thrown.by # "assert"


\* the block and features that were put into the Blob of frame f
Plain(f) == <<f.block, f.features>>

\* C18: a finished task was decoded from the raw bytes unchanged when its
\* Blob has raw data and from the decompressed bytes when it has zlib_data;
\* a Blob with lzma_data gives the error "lzma blobs not implemented", a Blob
\* without payload gives "blob contains no data", and in these two cases no
\* buffer is delivered for the blob.
C18_PayloadDispatch ==
    \A k \in 1..Len(tasks) :
        LET f == tasks[k].frame
            t == tasks[k]
        IN  (t.state # "pending") =>
            /\ (f.blob = "raw") =>
                  (t.data = Plain(f) /\ t.state = handle_blob("data", Plain(f)).state)
            /\ (f.blob = "zlib" /\ f.raw_size >= 0) =>
                  (t.data = Plain(f) /\ t.state = handle_blob("data", Plain(f)).state)
            /\ (f.blob = "lzma") =>
                  (t.state = "exception" /\ t.what = "lzma blobs not implemented")
            /\ (f.blob = "none") =>
                  (t.state = "exception" /\ t.what = "blob contains no data")
            /\ (f.blob \in {"lzma", "none"}) =>
                  (t.data = NoData /\ \A i \in 1..Len(delivered) : delivered[i] # Buf(k - 1))

C18_Witness ==
    /\ Len(tasks) = 1
    /\ tasks[1].frame.blob = "zlib"
    /\ tasks[1].state = "value"
    /\ tasks[1].data = <<"ok", <<>>>>
    /\ delivered = <<Buf(0)>>


\* the required features the header parser accepts
KnownFeatures == {"OsmSchema-V0.6", "DenseNodes", "HistoricalInformation"}

Lists(features, feature) == \E i \in 1..Len(features) : features[i] = feature

\* the header frame can be read and its Blob holds a HeaderBlock that parses
HeaderBlockReached(f) ==
    /\ f.parts = 3 /\ f.hsize <= max_blob_header_size /\ f.hparse
    /\ f.type = "OSMHeader"
    /\ f.datasize > 0 /\ f.datasize <= max_uncompressed_blob_size
    /\ f.blob \in {"raw", "zlib"}
    /\ f.raw_size >= 0 /\ f.raw_size <= max_uncompressed_blob_size
    /\ f.block = "ok"

\* C19: the constructor succeeds only when every required feature of the
\* HeaderBlock is a known one, and then the dense-nodes flag and the
\* multiple-versions flag are set exactly when their feature is listed; an
\* unknown required feature makes the constructor throw, and no reader thread
\* is started.
C19_RequiredFeatures ==
    LET f == FrameAt(1)
    IN  /\ (c_pc \notin {"ctor", "ctor_failed"}) =>
              /\ \A i \in 1..Len(f.features) : f.features[i] \in KnownFeatures
              /\ m_header.pbf_dense_nodes = Lists(f.features, "DenseNodes")
              /\ m_header.has_multiple_object_versions
                    = Lists(f.features, "HistoricalInformation")
        /\ (c_pc # "ctor" /\ HeaderBlockReached(f)
              /\ \E i \in 1..Len(f.features) : f.features[i] \notin KnownFeatures) =>
              /\ c_pc = "ctor_failed"
              /\ thrown.by = "ctor"
              /\ thrown.what = "required feature not supported"
              /\ p_pc = "not_started"

C19_Witness ==
    /\ c_pc = "ctor_failed"
    /\ FrameAt(1).features = <<"DenseNodes", "SomethingExotic">>
    /\ thrown.what = "required feature not supported"
    /\ p_pc = "not_started"


(***************************************************************************)
(* Properties of pass 1 of the relation collector                          *)
(***************************************************************************)
\* the index entries made for member position p (counted from 0) of slot
IndexEntries(t, slot, p) ==
    {i \in 1..Len(m_member_meta[t]) :
        /\ m_member_meta[t][i].relation_pos = slot
        /\ m_member_meta[t][i].member_pos = p}

\* the index entries of kind t that carry slot
SlotEntries(t, slot) ==
    {i \in 1..Len(m_member_meta[t]) : m_member_meta[t][i].relation_pos = slot}

\* C20: during pass 1 a member of a kept relation has an index entry, and is
\* counted in members_needed, exactly when keep_member said yes and its kind
\* is tracked; any other member has no entry and its ref is 0 in the stored
\* copy, and members_needed is the number of index entries of the slot.
C20_IndexOnlyTrackedKept ==
    (phase = "pass1") =>
        \A s \in 1..Len(m_relations) :
            LET rel == m_relations_buffer[m_relations[s].relation_offset + 1]
            IN  /\ \A p \in 1..Len(rel.members) :
                      LET m == rel.members[p]
                      IN  /\ (~track[m.type]) =>
                                (m.ref = 0 /\ IndexEntries(m.type, s - 1, p - 1) = {})
                          /\ (m.ref # 0) <=>
                                (\E i \in IndexEntries(m.type, s - 1, p - 1) :
                                    m_member_meta[m.type][i].member_id = m.ref)
                /\ m_relations[s].members_needed =
                      Cardinality(UNION {{<<t, i>> : i \in SlotEntries(t, s - 1)} :
                                            t \in Kinds})


\* a logged call of add_relation that kept no member, and one that kept some
RolledBack(e) == e.keep_relation /\ e.kept = 0
Committed(e) == e.keep_relation /\ e.kept > 0

\* the number of relations committed before the j-th call of pass 1
CommittedBefore(j) ==
    Cardinality({i \in 1..(j - 1) : Committed(pass1_log[i])})

\* C21: add_relation for a relation of which no member is kept leaves the
\* relations buffer, the vector of slots and the three member indexes as they
\* were; the relation is not stored, later relations get the slot they would
\* have had without it, and complete_relation is never called for it.
C21_RollbackLeavesNoTrace ==
    /\ [](\A j \in 1..Len(pass1_log) :
            /\ RolledBack(pass1_log[j]) =>
                  /\ \A o \in 1..Len(m_relations_buffer) : m_relations_buffer[o].id # j
                  /\ \A e \in 1..Len(events) :
                        IsComplete(events[e]) => events[e].relation # j
            /\ Committed(pass1_log[j]) =>
                  /\ m_relations_buffer[CommittedBefore(j) + 1].id = j
                  /\ (phase = "pass1") =>
                        m_relations[CommittedBefore(j) + 1].relation_offset
                           = CommittedBefore(j))
    /\ [][(/\ Len(pass1_log') = Len(pass1_log) + 1
           /\ RolledBack(pass1_log'[Len(pass1_log')]))
          => UNCHANGED <<m_relations_buffer, m_relations, m_member_meta>>]_vars

C21_Witness ==
    /\ Len(pass1_log) = 2
    /\ RolledBack(pass1_log[1])
    /\ Committed(pass1_log[2])
    /\ \E e \in 1..Len(events) :
          IsComplete(events[e]) /\ events[e].relation = 2 /\ events[e].slot = 0


(***************************************************************************)
(* Properties of pass 2 of the relation collector                          *)
(***************************************************************************)
\* the hooks called and copies made by the step
NewEvents == SubSeq(events', Len(events) + 1, Len(events'))

CountEvents(evs, kind) == Cardinality({i \in 1..Len(evs) : evs[i].ev = kind})

\* C22: an object of a tracked kind whose id is in no index entry of its
\* kind gives one call of the not-in-any-relation hook and no copy; an object
\* whose id is in the index is copied once to the members buffer, however
\* many entries carry its id, and the hook is not called.
C22_OrphanOrOneCopy ==
    [][(phase = "pass2" /\ phase' = "pass2" /\ k2' = k2 + 1) =>
        \/ /\ NewEvents = <<>>
           /\ \E t \in Kinds : ~track[t]
           /\ UNCHANGED m_members_buffer
        \/ /\ Len(NewEvents) = 1
           /\ NewEvents[1].ev = "not_in_any_relation"
           /\ track[NewEvents[1].object.type]
           /\ equal_range(m_member_meta[NewEvents[1].object.type],
                          NewEvents[1].object.id) = {}
           /\ UNCHANGED m_members_buffer
        \/ /\ Len(NewEvents) >= 1
           /\ NewEvents[1].ev = "add_item"
           /\ track[NewEvents[1].object.type]
           /\ equal_range(m_member_meta[NewEvents[1].object.type],
                          NewEvents[1].object.id) # {}
           /\ NewEvents[1].offset = Len(m_members_buffer)
           /\ CountEvents(NewEvents, "add_item") = 1
           /\ CountEvents(NewEvents, "not_in_any_relation") = 0]_vars

C22_Witness ==
    /\ phase = "pass2"
    /\ Cardinality(equal_range(m_member_meta["way"], 2)) = 2
    /\ Cardinality({i \in 1..Len(events) :
                       /\ events[i].ev = "add_item"
                       /\ events[i].object = Object("way", 2)}) = 1
    /\ CountEvents(events, "not_in_any_relation") = 1
    /\ m_members_buffer = <<Object("way", 2)>>


\* the events at which a copy of the member arrived in pass 2
Arrivals(m) ==
    {a \in 1..Len(events) :
        /\ events[a].ev = "add_item"
        /\ events[a].object = Object(m.type, m.ref)}

\* the members of the relation of a complete_relation event have all arrived
AllArrived(e) == \A x \in 1..Len(e.members) : Arrivals(e.members[x]) # {}

\* the arrival of the last needed member: the latest of the first arrivals
LastArrival(e) ==
    Max({Min(Arrivals(e.members[x])) : x \in 1..Len(e.members)})

\* the object being processed when the event was logged
Processing(i) == Max({a \in 1..i : events[a].ev = "add_item"})

\* C23: complete_relation is called for a relation while the object that is
\* its last missing member is being processed, so the calls are in the order
\* in which the last needed members arrive in pass 2.
C23_CompletedAtLastMember ==
    \A i \in 1..Len(events) :
        IsComplete(events[i]) =>
            /\ AllArrived(events[i])
            /\ Processing(i) = LastArrival(events[i])
            /\ \A j \in 1..Len(events) :
                  (/\ IsComplete(events[j])
                   /\ AllArrived(events[j])
                   /\ LastArrival(events[i]) < LastArrival(events[j])) => i < j


\* a member of the stored relation never arrived in pass 2
MissesMember(relation) ==
    \E x \in 1..Len(relation.members) :
        /\ relation.members[x].ref # 0
        /\ Arrivals(relation.members[x]) = {}

\* C24: at the end of pass 2 the done hook has been called once, after
\* everything else, the relations buffer and the slot vector hold every kept
\* relation, and each kept relation a member of which never arrived has a
\* slot that is not a tombstone, has members_found < members_needed and
\* holds the offset of the relation's copy.
C24_IncompleteStillPresent ==
    (phase = "done") =>
        /\ CountEvents(events, "done") = 1
        /\ events[Len(events)].ev = "done"
        /\ Len(m_relations) = Len(m_relations_buffer)
        /\ \A o \in 1..Len(m_relations_buffer) :
              MissesMember(m_relations_buffer[o]) =>
                  \E s \in 1..Len(m_relations) :
                      /\ ~Tombstoned(m_relations[s])
                      /\ m_relations[s].relation_offset = o - 1
                      /\ m_relations[s].members_found < m_relations[s].members_needed


(***************************************************************************)
(* Properties of the Reader                                                *)
(***************************************************************************)
\* what the constructor gets from the first frame of the file
HeaderDecode ==
    LET f == FrameAt(1)
        r == read_blob_header("OSMHeader", f)
        c == IF r.kind = "throw" THEN r ELSE BlobParserCtor(r.size, f, r.reads)
    IN  IF c.kind = "throw" THEN Failure(c.what)
        ELSE BlobParserCall("header", f, c.size, ndebug)

\* C28: with the entity filter 'nothing' the constructor decodes the header,
\* which header() then gives, the reader thread is never started, no frame
\* after the header frame is read and no blob is handed to the pool, and
\* read() gives the empty buffer at once, without waiting on the queue.
C28_NothingReadsHeaderOnly ==
    (read_types = "nothing") =>
        /\ p_pc = "not_started"
        /\ cursor <= 2
        /\ tasks = <<>> /\ work_queue = <<>> /\ m_queue = <<>>
        /\ \A w \in Workers : running[w] = -1
        /\ c_pc \in {"ctor", "ctor_failed", "idle", "join", "destroyed", "terminated"}
        /\ \A i \in 1..Len(delivered) : delivered[i] = Eos
        /\ (c_pc \in {"idle", "join", "destroyed"}) =>
              /\ HeaderDecode.state = "value"
              /\ m_header = HeaderDecode.flags
              /\ cursor = 2

C28_Witness ==
    /\ read_types = "nothing"
    /\ Len(file) >= 2
    /\ file[1] = HeaderGood
    /\ c_pc = "idle"
    /\ delivered = <<Eos>>
    /\ m_header = HeaderDecode.flags

\* C29: destroying the Reader never ends in an exception that leaves the
\* destructor; when the destructor has run, m_input_done and m_done are set,
\* the reader thread is not running and the subprocess has been waited for.
C29_DestructorDoesNotRaise ==
    /\ c_pc # "terminated"
    /\ (c_pc = "destroyed") =>
          /\ m_input_done
          /\ m_done
          /\ p_pc \in {"not_started", "exited"}
          /\ m_childpid = 0


(***************************************************************************)
(* Properties of the primitive block parser                                *)
(***************************************************************************)
\* the sum of the first i entries of an array of deltas
RECURSIVE PrefixSum(_, _)
PrefixSum(deltas, i) == IF i = 0 THEN 0 ELSE PrefixSum(deltas, i - 1) + deltas[i]

\* the group of the block and the nodes decoded from it
TheGroup == pbf_primitive_block.primitivegroup[1]
Decoded == m_buffer.state = "value"

\* the raw timestamp of the i-th node: accumulated in a dense group
RawTimestamp(i) ==
    IF TheGroup.kind = "dense" THEN PrefixSum(TheGroup.timestamp, i)
    ELSE TheGroup.timestamp[i]

\* the time a node carries, in milliseconds: osmium::Timestamp counts seconds
Milliseconds(node) == node.timestamp * 1000

\* C25: a node decoded with metadata carries the time raw * date_granularity
\* milliseconds, raw being its timestamp value in the block (accumulated for
\* dense nodes); a non-zero raw timestamp does not decode to zero.
C25_TimestampRule ==
    Decoded =>
        \A i \in 1..Len(m_buffer.nodes) :
            (m_buffer.nodes[i].has_info /\ RawTimestamp(i) >= 0) =>
                /\ Milliseconds(m_buffer.nodes[i])
                      = RawTimestamp(i) * pbf_primitive_block.date_granularity
                /\ (RawTimestamp(i) # 0) => (Milliseconds(m_buffer.nodes[i]) # 0)

\* the location the coordinate rule gives for accumulated coordinates
LocationOf(lon, lat) ==
    [lon |-> cdiv(lon * pbf_primitive_block.granularity + pbf_primitive_block.lon_offset,
                  lonlat_resolution \div coordinate_precision),
     lat |-> cdiv(lat * pbf_primitive_block.granularity + pbf_primitive_block.lat_offset,
                  lonlat_resolution \div coordinate_precision)]

\* C26: a dense group with N ids is decoded into N nodes, in array order; the
\* id of the i-th node is the sum of the first i id deltas, and its location
\* is that of the sums of the first i lat and lon deltas.
C26_DensePrefixSums ==
    (Decoded /\ TheGroup.kind = "dense") =>
        /\ Len(m_buffer.nodes) = Len(TheGroup.id)
        /\ \A i \in 1..Len(m_buffer.nodes) :
              /\ m_buffer.nodes[i].id = PrefixSum(TheGroup.id, i)
              /\ m_buffer.nodes[i].location
                    = LocationOf(PrefixSum(TheGroup.lon, i), PrefixSum(TheGroup.lat, i))

C26_Witness ==
    /\ Decoded
    /\ TheGroup.kind = "dense"
    /\ TheGroup.id = <<10, 5, -3>>
    /\ [i \in 1..3 |-> m_buffer.nodes[i].id] = <<10, 15, 12>>
    /\ [i \in 1..3 |-> m_buffer.nodes[i].location.lat] = <<4, 3, 7>>

\* the end of the segment that starts at cursor k: the first key position at
\* or after k that holds 0, or the length of the stream
RECURSIVE SegmentEnd(_, _)
SegmentEnd(kv, k) ==
    IF k >= Len(kv) THEN Len(kv)
    ELSE IF kv[k + 1] = 0 THEN k
    ELSE SegmentEnd(kv, k + 2)

\* the cursor before node i: just past the terminator of the segment before
RECURSIVE CursorBefore(_, _)
CursorBefore(kv, i) ==
    IF i = 1 THEN 0
    ELSE LET e == SegmentEnd(kv, CursorBefore(kv, i - 1))
         IN  IF e >= Len(kv) THEN Len(kv) ELSE e + 1

\* the (key, value) pairs of the stream from cursor k up to cursor e
Pairs(kv, k, e) ==
    [j \in 1..((e - k) \div 2) |->
        <<StringTable[kv[k + 2 * j - 1] + 1], StringTable[kv[k + 2 * j] + 1]>>]

\* C27: node i of a dense group gets the pairs of the i-th 0-terminated
\* segment of keys_vals, in order, and the cursor then stands just past the
\* segment's terminator; a segment that starts with 0 gives no tags, and when
\* the cursor is at the end of keys_vals every remaining node has no tags.
C27_DenseTagSegments ==
    (Decoded /\ TheGroup.kind = "dense") =>
        \A i \in 1..Len(m_buffer.nodes) :
            LET kv == TheGroup.keys_vals
                k  == CursorBefore(kv, i)
                e  == SegmentEnd(kv, k)
            IN  /\ m_buffer.nodes[i].tags = Pairs(kv, k, e)
                /\ m_buffer.cursors[i] = IF e >= Len(kv) THEN Len(kv) ELSE e + 1
                /\ (k < Len(kv) /\ kv[k + 1] = 0) => m_buffer.nodes[i].tags = <<>>
                /\ (k >= Len(kv)) => m_buffer.nodes[i].tags = <<>>

C27_Witness ==
    /\ Decoded
    /\ TheGroup.kind = "dense"
    /\ TheGroup.keys_vals = <<1, 2, 0, 0, 3, 4, 0>>
    /\ Len(m_buffer.nodes) = 3
    /\ m_buffer.nodes[1].tags = <<<<"highway", "primary">>>>
    /\ m_buffer.nodes[2].tags = <<>>
    /\ m_buffer.nodes[3].tags = <<<<"name", "Elm Street">>>>
    /\ m_buffer.cursors = <<3, 4, 7>>


(***************************************************************************)
(* Properties of the Bzip2Decompressor                                     *)
(***************************************************************************)
Called(c) == \E i \in 1..Len(bz_calls) : bz_calls[i] = c

C31_SortedStable ==
    (phase = "pass2") =>
        \A t \in Kinds : \A i, j \in 1..Len(m_member_meta[t]) :
            (i < j) =>
                LET a == m_member_meta[t][i]
                    b == m_member_meta[t][j]
                IN  /\ a.member_id <= b.member_id
                    /\ (a.member_id = b.member_id) =>
                          \/ a.relation_pos < b.relation_pos
                          \/ /\ a.relation_pos = b.relation_pos
                             /\ a.member_pos < b.member_pos


(***************************************************************************)
(* Properties of the dispatch over the groups of a block                   *)
(***************************************************************************)
\* the fields of a group that hold something: has_dense(), nodes_size() != 0,
\* ways_size() != 0, relations_size() != 0
PopulatedKinds(group) ==
    (IF group.kind = "dense" THEN {"dense"} ELSE {})
    \cup (IF group.kind = "nodes" /\ Len(group.id) # 0 THEN {"nodes"} ELSE {})
    \cup (IF Len(group.ways) # 0 THEN {"ways"} ELSE {})
    \cup (IF Len(group.relations) # 0 THEN {"relations"} ELSE {})

BlockParsed == m_buffer.state # "none"

\* C32: a block with a group that populates none or more than one of dense,
\* nodes, ways and relations is rejected with "group of unknown type"; it is
\* never reported as decoded.
C32_ExactlyOneKind ==
    BlockParsed =>
        ((\E g \in 1..Len(pbf_primitive_block.primitivegroup) :
              Cardinality(PopulatedKinds(pbf_primitive_block.primitivegroup[g])) # 1)
         => /\ m_buffer.state = "exception"
            /\ m_buffer.what = "group of unknown type")

\* the entity kind of a group that populates one field
EntityKind(group) ==
    IF PopulatedKinds(group) \subseteq {"dense", "nodes"} THEN "node"
    ELSE IF PopulatedKinds(group) = {"ways"} THEN "way"
    ELSE "relation"

\* kind and id of the entities of a group, in the order of the group
EntitiesOf(group) ==
    IF PopulatedKinds(group) = {"dense"}
    THEN [i \in 1..Len(group.id) |-> <<"node", PrefixSum(group.id, i)>>]
    ELSE IF PopulatedKinds(group) = {"nodes"}
    THEN [i \in 1..Len(group.id) |-> <<"node", group.id[i]>>]
    ELSE IF PopulatedKinds(group) = {"ways"}
    THEN [i \in 1..Len(group.ways) |-> <<"way", group.ways[i].id>>]
    ELSE [i \in 1..Len(group.relations) |-> <<"relation", group.relations[i].id>>]

\* the entities of the requested groups from group g on, in group order
RECURSIVE Requested(_, _, _)
Requested(groups, g, types) ==
    IF g > Len(groups) THEN <<>>
    ELSE (IF EntityKind(groups[g]) \in types THEN EntitiesOf(groups[g]) ELSE <<>>)
         \o Requested(groups, g + 1, types)

\* what the parser gives for group g alone when every kind is asked for
Alone(g) ==
    PBFPrimitiveBlockParser(
        [pbf_primitive_block EXCEPT !.primitivegroup = <<pbf_primitive_block.primitivegroup[g]>>],
        Kinds, ndebug).nodes

RECURSIVE RequestedAlone(_)
RequestedAlone(g) ==
    IF g > Len(pbf_primitive_block.primitivegroup) THEN <<>>
    ELSE (IF EntityKind(pbf_primitive_block.primitivegroup[g]) \in m_read_types
          THEN Alone(g) ELSE <<>>)
         \o RequestedAlone(g + 1)

OneKindEach ==
    \A g \in 1..Len(pbf_primitive_block.primitivegroup) :
        Cardinality(PopulatedKinds(pbf_primitive_block.primitivegroup[g])) = 1

\* C33: in a block whose groups each hold one kind, the buffer holds exactly
\* the entities of the groups of a requested kind, in group order and in the
\* order inside each group, decoded as they are when the group stands alone;
\* a group of another kind adds nothing and raises no error.
C33_EntityFilter ==
    (BlockParsed /\ OneKindEach) =>
        /\ m_buffer.state = "value"
        /\ [i \in 1..Len(m_buffer.nodes) |->
              <<m_buffer.nodes[i].type, m_buffer.nodes[i].id>>]
             = Requested(pbf_primitive_block.primitivegroup, 1, m_read_types)
        /\ m_buffer.nodes = RequestedAlone(1)

\* a way group before a dense group, nodes only asked for: the two nodes
C33_Witness ==
    /\ BlockParsed
    /\ pbf_primitive_block.primitivegroup = <<WayGroup, DenseGroup>>
    /\ m_read_types = {"node"}
    /\ Len(m_buffer.nodes) = 2
    /\ m_buffer.nodes[1].id = 10
    /\ m_buffer.nodes[2].id = 15

(***************************************************************************)
(* Properties of the checks on the DenseInfo values                        *)
(***************************************************************************)
\* step i of a dense group with DenseInfo breaks one of the five conditions
BadDenseStep(group, i) ==
    \/ PrefixSum(group.changeset, i) < 0
    \/ PrefixSum(group.timestamp, i) < 0
    \/ PrefixSum(group.uid, i) < -1
    \/ PrefixSum(group.user_sid, i) < 0
    \/ group.version[i] <= 0

\* C34: a dense group with DenseInfo in which a step gives changeset < 0,
\* timestamp < 0, uid < -1, user_sid < 0 or version <= 0 makes the decoding of
\* the block end with an exception for the consumer, and no node is emitted
\* for such a step.
C34_DenseChecksCorrupt ==
    (/\ BlockParsed
     /\ TheGroup.kind = "dense"
     /\ TheGroup.has_info
     /\ \E i \in 1..Len(TheGroup.id) : BadDenseStep(TheGroup, i))
    => /\ m_buffer.state = "exception"
       /\ \A i \in 1..Len(m_buffer.nodes) : ~BadDenseStep(TheGroup, i)

(***************************************************************************)
(* Properties of the relocation hook and of the purge                      *)
(***************************************************************************)
\* C35: whenever moving_in_buffer(old, new) has been called, every index entry
\* of the id of the moved object held the offset old at the call.
C35_MovingFromOld ==
    \A e \in 1..Len(events) :
        (events[e].ev = "moving_in_buffer") =>
            \A i \in DOMAIN events[e].entries :
                events[e].entries[i] = events[e].old_offset

\* C36: the purge runs on every PurgeEvery-th call of
\* possibly_purge_deleted_members (one call for each completed relation) and
\* sets the counter to 0, and on no other call: the counter is the number of
\* completions since the last multiple of PurgeEvery.
C36_PurgeCadence ==
    (phase = "pass2") =>
        m_count_complete = CountEvents(events, "complete_relation") % PurgeEvery

(***************************************************************************)
(* Properties of the end of the stream                                     *)
(***************************************************************************)
\* the number of futures the reader thread has pushed to m_queue
Pushed == IF p_pc = "push" THEN Len(tasks) - 1 ELSE Len(tasks)

\* the futures read() has returned, as a value or as the exception rethrown
Returned == SelectSeq(delivered, LAMBDA d : d.kind # "eos")

\* C37: read() returns each future at most once, and it returns the invalid
\* buffer only when every future the reader thread pushed has been returned
\* by an earlier read(): no buffer is lost or returned twice at the end of
\* the stream.
C37_NoBufferLost ==
    /\ \A i, j \in 1..Len(Returned) : (i # j) => Returned[i].blob # Returned[j].blob
    /\ \A i \in 1..Len(delivered) :
          (delivered[i] = Eos /\ read_types # "nothing") =>
              /\ {delivered[j].blob : j \in 1..(i - 1)} = 0..(Pushed - 1)
              /\ c_fut = -1
              /\ (c_pc # "destroyed") => (m_queue = <<>>)

\* two futures pushed and returned, then the invalid buffer
C37_Witness ==
    /\ Len(delivered) = 3
    /\ delivered[3] = Eos
    /\ Pushed = 2
    /\ {delivered[1].blob, delivered[2].blob} = {0, 1}

(***************************************************************************)
(* Properties of the slots and of the index entries in pass 2              *)
(***************************************************************************)
\* C38: in pass 2 no slot has found more members than it needs.
C38_FoundWithinNeeded ==
    (phase = "pass2") =>
        \A k \in 1..Len(m_relations) :
            m_relations[k].members_found <= m_relations[k].members_needed

\* C39: a data frame whose BlobHeader has datasize 0 ends the reading like
\* the end of the file: the reader thread does not go past it, no future is
\* queued for it or for a frame after it, the thread sets m_done and returns
\* and throws nothing.
C39_ZeroSizeIsEof ==
    \A i \in 2..Len(file) :
        (file[i] = DataZeroSize) =>
            /\ cursor <= i
            /\ Len(tasks) <= i - 2
            /\ \A t \in 1..Len(tasks) : tasks[t].frame # DataZeroSize
            /\ (cursor = i) => (p_pc # "terminate")
            /\ (cursor = i /\ p_pc = "exited") => m_done

\* a block, a frame of datasize 0 and another block: the first block and
\* then the invalid buffer were returned, the thread has returned
C39_Witness ==
    /\ file = <<HeaderGood, DataGood, DataZeroSize, DataGood>>
    /\ cursor = 3
    /\ p_pc = "exited"
    /\ m_done
    /\ delivered = <<Buf(0), Eos>>

\* the index entry mm agrees with the slot vector: its slot exists, the
\* relation stored for the slot has a member at its position, and that member
\* has the id of the entry
EntryConsistent(mm) ==
    /\ mm.relation_pos < Len(m_relations)
    /\ LET relation == m_relations_buffer[m_relations[mm.relation_pos + 1].relation_offset + 1]
       IN  /\ mm.member_pos < Len(relation.members)
           /\ relation.members[mm.member_pos + 1].ref = mm.member_id

\* C40: when find_and_add_object goes through the equal range of an object
\* that arrives in pass 2, every index entry of the range names a slot that
\* exists, a position inside the relation stored for that slot, and that
\* relation's member at the position has the id of the entry.
C40_EntriesConsistent ==
    [][(/\ phase = "pass2"
        /\ Len(events') > Len(events)
        /\ events'[Len(events) + 1].ev = "add_item")
       => LET object == events'[Len(events) + 1].object
              mmv    == m_member_meta[object.type]
          IN  \A i \in equal_range(mmv, object.id) : EntryConsistent(mmv[i])]_vars
====
